---- MODULE Spec2Model ----
(***************************************************************************)
(* Model of the money-backend server: the users collection, the            *)
(* email_verifications and password_resets ledgers, the categories and     *)
(* transactions collections, the JWT access gate (token_required /         *)
(* admin_required) and the handlers of auth_routes.py, admin_routes.py,    *)
(* user_routes.py, transaction_routes.py and category_routes.py.           *)
(*                                                                         *)
(* Every request is served by a worker.  A worker step is one datastore    *)
(* call (find_one, insert_one, update_one, delete_one, delete_many) or one *)
(* call to the mail transport, together with the pure code that follows it *)
(* up to the next such call.  Steps of different workers interleave, as    *)
(* they do between the requests of a multi-threaded or multi-process       *)
(* server; each single datastore call is atomic.                           *)
(***************************************************************************)
EXTENDS Integers, FiniteSets, Sequences, TLC

\* ---------------------------------------------------------------- bounds
MaxUsers == 3          \* ObjectIds the users collection hands out (the seeded admin is 1)
MaxTokens == 3         \* calls of generate_verification_token
MaxTicks == 1          \* advances of the wall clock
MaxAccessTokens == 2   \* distinct JWTs handed to clients
MaxObjectId == 9       \* ObjectIds of categories and transactions (a registration takes seven)

\* ------------------------------------------------------ program constants
VerificationTokenHours == 24
ResetTokenHours == 1
AccessTokenHours == 24

\* ------------------------------------------------------------ value sets
AllWorkers == {1, 2}

AdminName == "root"
AdminEmail == "root@x.io"
AdminPassword == "Adm1nPass"

NoValue == ""
Usernames == {"al", "bo"}
Emails == {"al@x.io", "AL@x.io"}
BadEmail == "al.x.io"
WeakPassword == "weak"
StrongPasswords == {"Passw0rd1", "Passw0rd2", AdminPassword}

NoToken == 0
UnknownToken == MaxTokens + 1

\* str.lower()
Lower(s) ==
    IF s = "AL@x.io" THEN "al@x.io" ELSE s

\* '@' in s
HasAt(s) == s \in Emails \cup {AdminEmail}

\* is_valid_email: ^[\w\.-]+@[\w\.-]+\.\w+$
is_valid_email(email) == email \in Emails \cup {AdminEmail}

\* is_strong_password: len >= 8, a digit and a letter
is_strong_password(password) == password \in StrongPasswords

\* werkzeug generate_password_hash / check_password_hash: a one-way value
\* that check_password_hash accepts exactly for the password it was made from
generate_password_hash(password) == [h |-> password]
check_password_hash(hash, password) == hash = [h |-> password]
NoHash == [h |-> NoValue]

\* str(ObjectId): the string form of a document id, and ObjectId(str), which
\* reads it back; a string that is no id is read as 0, the id of no document
str(id) == ToString(id)

ObjectId(s) ==
    IF \E i \in 1..MaxUsers : str(i) = s
    THEN CHOOSE i \in 1..MaxUsers : str(i) = s
    ELSE 0

\* ------------------------------------------------------------- documents
NoUser ==
    [_id |-> 0, username |-> NoValue, email |-> NoValue, password |-> NoHash,
     role |-> NoValue, is_active |-> FALSE, email_verified |-> FALSE,
     email_verification_token |-> NoToken]

\* User(...).to_dict() plus the password field
UserDoc(id, username, email, hash, token) ==
    [_id |-> id, username |-> username, email |-> email, password |-> hash,
     role |-> "user", is_active |-> TRUE, email_verified |-> FALSE,
     email_verification_token |-> token]

AdminDoc ==
    [_id |-> 1, username |-> AdminName, email |-> AdminEmail,
     password |-> generate_password_hash(AdminPassword),
     role |-> "admin", is_active |-> TRUE, email_verified |-> TRUE,
     email_verification_token |-> NoToken]

NoRec == [user_id |-> NoValue, token |-> NoToken, type |-> NoValue, expires_at |-> 0, used |-> FALSE]

NoPayload == [sub |-> NoValue, role |-> NoValue, exp |-> 0]

DefaultCategories ==
    <<"Salary", "Bonus", "Food", "Transportation", "Housing", "Entertainment", "Utilities">>

DefaultCategoryNames == {DefaultCategories[i] : i \in 1..Len(DefaultCategories)}

CategoryType(name) == IF name \in {"Salary", "Bonus"} THEN "income" ELSE "expense"

\* the documents of default_categories for one user, as insert_many stores
\* them: each gets the next ObjectId, in the order of the list
DefaultCategoryDocs(user_id, first_id) ==
    {[_id |-> first_id + i - 1, name |-> DefaultCategories[i],
      type |-> CategoryType(DefaultCategories[i]), user_id |-> str(user_id),
      is_default |-> TRUE] : i \in 1..Len(DefaultCategories)}

NoCategory ==
    [_id |-> 0, name |-> NoValue, type |-> NoValue, user_id |-> NoValue, is_default |-> FALSE]

\* Category(...).to_dict() with the _id that insert_one gives it
CategoryDoc(id, name, type, user_id) ==
    [_id |-> id, name |-> name, type |-> type, user_id |-> user_id, is_default |-> FALSE]

\* Transaction(...).to_dict() with the _id that insert_one gives it; the
\* amount and the dates are left out
NoTransaction ==
    [_id |-> 0, user_id |-> NoValue, type |-> NoValue, category_id |-> NoValue,
     category_name |-> NoValue, note |-> NoValue]

TransactionDoc(id, user_id, type, category_id, category_name, note) ==
    [_id |-> id, user_id |-> user_id, type |-> type, category_id |-> category_id,
     category_name |-> category_name, note |-> note]

\* the JSON body of the transaction and category routes: amount says that
\* the body has an amount; a field that the body does not have is NoValue,
\* and 0 for category_id, whose value is the string form of the id;
\* transaction_ids is the list of bulk-delete, listed says that the body
\* has one
NoBody ==
    [amount |-> FALSE, type |-> NoValue, category_id |-> 0, note |-> NoValue,
     name |-> NoValue, listed |-> FALSE, transaction_ids |-> {}]

\* the Authorization header of a request: its first word, and the token that
\* follows it (NoPayload when the header has one word only)
NoHeader == [scheme |-> NoValue, jwt |-> NoPayload, signed |-> FALSE]
BearerOnly == [scheme |-> "Bearer", jwt |-> NoPayload, signed |-> FALSE]
Bearer(jwt, signed) == [scheme |-> "Bearer", jwt |-> jwt, signed |-> signed]
Basic(jwt, signed) == [scheme |-> "Basic", jwt |-> jwt, signed |-> signed]

NoResp ==
    [code |-> 0, message |-> NoValue, token |-> NoPayload,
     email_verification_required |-> FALSE]

NoReq ==
    [op |-> NoValue, username |-> NoValue, email |-> NoValue, password |-> NoValue,
     token |-> NoToken, uid |-> 0, user |-> NoUser, trec |-> NoRec,
     payload |-> NoPayload, invoked |-> FALSE, target |-> 0, sent |-> FALSE,
     mark |-> NoValue, wrote_user |-> FALSE, gate_user |-> NoUser,
     role |-> NoValue, header |-> NoHeader, t |-> 0, checked_at |-> 0,
     newer |-> NoToken, redeemed |-> FALSE, current_password |-> NoValue,
     given |-> FALSE, data |-> NoBody, category |-> NoCategory,
     transaction |-> NoTransaction, deleted_count |-> 0]

\* ------------------------------------------------------------ mutations
\* line 152 without the verified check
LoginEmailVerified_Skipped(user) == TRUE

\* line 62 without the active check
GateIsActive_Skipped(user) == TRUE

\* line 76 without the role check
AdminRequiredPasses_Skipped(payload) == TRUE

\* line 328 without the early return
MarkLost_Ignored(modified_count) == FALSE

\* lines 336-339 without the $set of email_verified
VerifiedUser_NoSet(u) == [u EXCEPT !.email_verification_token = NoToken]

\* line 309 without the look at the owner
OwnerVerified_Never(user) == FALSE

\* line 89 with a filter that matches nothing
RollbackFilter_None(u, inserted_id) == FALSE

VARIABLES
    users,                \* mongo_db.users
    nextUserId,           \* the next ObjectId insert_one gives a user
    email_verifications,  \* mongo_db.email_verifications
    password_resets,      \* mongo_db.password_resets
    categories,           \* mongo_db.categories
    transactions,         \* mongo_db.transactions
    nextTok,              \* the next value of secrets.token_urlsafe
    nextOid,              \* the next ObjectId of a category or a transaction
    now,                  \* datetime.utcnow(), in hours
    ticks,                \* clock advances so far
    issued,               \* the JWTs generate_token has signed
    workers,              \* the workers that serve requests
    pc,                   \* per worker: where its handler stands
    req,                  \* per worker: the request and the handler's locals
    resp,                 \* per worker: the response of a finished request
    marked,               \* history: per token, conditional updates that set used
    applied               \* history: per token, user updates made when redeeming it

vars == <<users, nextUserId, email_verifications, password_resets, categories,
          transactions, nextTok, nextOid, now, ticks, issued, workers, pc, req, resp, marked, applied>>

hist == <<marked, applied>>

db == <<users, nextUserId, email_verifications, password_resets, categories,
        transactions, nextTok, nextOid>>

\* ---------------------------------------------------- datastore helpers
\* collection.find_one(filter): the first matching document in natural
\* (insertion) order, or None
FirstUser(S) ==
    IF S = {} THEN NoUser
    ELSE CHOOSE u \in S : \A v \in S : u._id <= v._id

FirstRec(S) ==
    IF S = {} THEN NoRec
    ELSE CHOOSE r \in S : \A q \in S : r.token <= q.token

UserById(id) == FirstUser({u \in users : u._id = id})

FirstCategory(S) ==
    IF S = {} THEN NoCategory
    ELSE CHOOSE c \in S : \A d \in S : c._id <= d._id

FirstTransaction(S) ==
    IF S = {} THEN NoTransaction
    ELSE CHOOSE t \in S : \A d \in S : t._id <= d._id

\* the case-insensitive anchored regex of login: '^<name>$' with option i
UsernameRegexMatches(pattern, username) == Lower(pattern) = Lower(username)

\* ------------------------------------------------------------- responses
Response(code, message) == [NoResp EXCEPT !.code = code, !.message = message]

\* a handler returns: the worker holds the response until it is delivered
Return(w, r, code, message) ==
    /\ pc' = [pc EXCEPT ![w] = "done"]
    /\ req' = [req EXCEPT ![w] = r]
    /\ resp' = [resp EXCEPT ![w] = Response(code, message)]

ReturnBody(w, r, body) ==
    /\ pc' = [pc EXCEPT ![w] = "done"]
    /\ req' = [req EXCEPT ![w] = r]
    /\ resp' = [resp EXCEPT ![w] = body]

Goto(w, r, label) ==
    /\ pc' = [pc EXCEPT ![w] = label]
    /\ req' = [req EXCEPT ![w] = r]
    /\ UNCHANGED resp

\* a new request goes to the first free worker
Idle(w) ==
    /\ w \in workers
    /\ pc[w] = "idle"
    /\ \A v \in workers : v < w => pc[v] # "idle"

\* ---------------------------------------------------------------- init
InitDb ==
    /\ users = {AdminDoc}
    /\ nextUserId = 2
    /\ email_verifications = {}
    /\ password_resets = {}
    /\ categories = {}
    /\ transactions = {}
    /\ nextTok = 1
    /\ nextOid = 1
    /\ now = 0
    /\ ticks = 0
    /\ issued = {}
    /\ pc = [w \in AllWorkers |-> "idle"]
    /\ req = [w \in AllWorkers |-> NoReq]
    /\ resp = [w \in AllWorkers |-> NoResp]
    /\ marked = [t \in 1..MaxTokens |-> 0]
    /\ applied = [t \in 1..MaxTokens |-> 0]

InitSeq == InitDb /\ workers = {1}

\* the response is delivered and the worker is free for the next request
Finish(w) ==
    /\ w \in workers
    /\ pc[w] = "done"
    /\ pc' = [pc EXCEPT ![w] = "idle"]
    /\ req' = [req EXCEPT ![w] = NoReq]
    /\ resp' = [resp EXCEPT ![w] = NoResp]
    /\ UNCHANGED <<db, now, ticks, issued, workers, hist>>

\* the wall clock advances
Tick(d) ==
    /\ ticks < MaxTicks
    /\ now' = now + d
    /\ ticks' = ticks + 1
    /\ UNCHANGED <<db, issued, workers, pc, req, resp, hist>>

\* ------------------------------------------------- auth_routes.register
\* workers that will still draw an ObjectId / a token for a request they
\* have accepted
PendingUserInserts ==
    Cardinality({w \in workers : pc[w] \in {"register_find_email", "register_insert_user"}})

PendingTokens ==
    Cardinality({w \in workers : pc[w] = "register_find_email"})

\* lines 33-45: validation and the username lookup
register(w, username, email, password) ==
    /\ Idle(w)
    /\ nextUserId + PendingUserInserts <= MaxUsers
    /\ nextTok + PendingTokens <= MaxTokens
    /\ LET r == [NoReq EXCEPT !.op = "register", !.username = username,
                              !.email = email, !.password = password]
       IN  IF username = NoValue \/ email = NoValue \/ password = NoValue
           THEN Return(w, r, 400, "Missing required fields")
           ELSE IF ~is_valid_email(email)
           THEN Return(w, r, 400, "Invalid email format")
           ELSE IF FirstUser({u \in users : u.username = username}) # NoUser
           THEN Return(w, r, 409, "Username already exists")
           ELSE Goto(w, r, "register_find_email")
    /\ UNCHANGED <<db, now, ticks, issued, workers, hist>>

\* lines 47-59: the email lookup, the strength check, the token is drawn
register_find_email(w) ==
    /\ w \in workers
    /\ pc[w] = "register_find_email"
    /\ LET r == req[w]
       IN  IF FirstUser({u \in users : u.email = r.email}) # NoUser
           THEN Return(w, r, 409, "Email already exists") /\ UNCHANGED nextTok
           ELSE IF ~is_strong_password(r.password)
           THEN Return(w, r, 400, "Password must be at least 8 characters and include both letters and numbers")
                /\ UNCHANGED nextTok
           ELSE /\ Goto(w, [r EXCEPT !.token = nextTok], "register_insert_user")
                /\ nextTok' = nextTok + 1
    /\ UNCHANGED <<users, nextUserId, email_verifications, password_resets, categories, transactions,
                   nextOid, now, ticks, issued, workers, hist>>

\* lines 61-75: users.insert_one
register_insert_user(w) ==
    /\ w \in workers
    /\ pc[w] = "register_insert_user"
    /\ LET r == req[w]
       IN  /\ users' = users \cup {UserDoc(nextUserId, r.username, r.email,
                                           generate_password_hash(r.password), r.token)}
           /\ nextUserId' = nextUserId + 1
           /\ Goto(w, [r EXCEPT !.uid = nextUserId], "save_verification_token")
    /\ UNCHANGED <<email_verifications, password_resets, categories, transactions, nextTok,
                   nextOid, now, ticks, issued, workers, hist>>

\* ------------------------------ email_service.save_verification_token
VerificationRec(user_id, token, t) ==
    [user_id |-> str(user_id), token |-> token, type |-> "email_verification",
     expires_at |-> t + VerificationTokenHours, used |-> FALSE]

\* lines 21-36: expires_at is computed, then delete_many
save_verification_token(w) ==
    /\ w \in workers
    /\ pc[w] = "save_verification_token"
    /\ email_verifications' =
           {e \in email_verifications :
               ~(e.user_id = str(req[w].uid) /\ e.type = "email_verification")}
    /\ Goto(w, [req[w] EXCEPT !.trec = VerificationRec(req[w].uid, req[w].token, now)],
            "save_verification_token_insert")
    /\ UNCHANGED <<users, nextUserId, password_resets, categories, transactions, nextTok,
                   nextOid, now, ticks, issued, workers, hist>>

\* line 38: insert_one
save_verification_token_insert(w) ==
    /\ w \in workers
    /\ pc[w] = "save_verification_token_insert"
    /\ email_verifications' = email_verifications \cup {req[w].trec}
    /\ Goto(w, req[w], "send_verification_email")
    /\ UNCHANGED <<users, nextUserId, password_resets, categories, transactions, nextTok,
                   nextOid, now, ticks, issued, workers, hist>>

\* --------------------------------- email_service.send_verification_email
\* the transport delivers or fails; register continues at lines 87-90,
\* resend_verification at lines 406-411
send_verification_email(w, success) ==
    /\ w \in workers
    /\ pc[w] = "send_verification_email"
    /\ LET r == [req[w] EXCEPT !.sent = success]
       IN  IF r.op = "register"
           THEN IF success
                THEN Goto(w, r, "register_default_categories")
                ELSE Goto(w, r, "register_rollback")
           ELSE IF success
                THEN Return(w, r, 200, "Verification email sent successfully. Please check your inbox.")
                ELSE Return(w, r, 500, "Error sending email")
    /\ UNCHANGED <<db, now, ticks, issued, workers, hist>>

\* line 89: the filter of the rollback's delete_one
RollbackFilter(u, inserted_id) == u._id = inserted_id

\* lines 87-90: users.delete_one of the record just inserted
register_rollback(w) ==
    /\ w \in workers
    /\ pc[w] = "register_rollback"
    /\ users' = {u \in users : ~RollbackFilter(u, req[w].uid)}
    /\ Return(w, req[w], 500, "Failed to send verification email. Please try again.")
    /\ UNCHANGED <<nextUserId, email_verifications, password_resets, categories, transactions, nextTok,
                   nextOid, now, ticks, issued, workers, hist>>

\* lines 92-110: categories.insert_many of the seven default categories
register_default_categories(w) ==
    /\ w \in workers
    /\ pc[w] = "register_default_categories"
    /\ categories' = categories \cup DefaultCategoryDocs(req[w].uid, nextOid)
    /\ nextOid' = nextOid + Len(DefaultCategories)
    /\ ReturnBody(w, req[w],
           [Response(201, "User registered successfully. Please check your email to verify your account.")
               EXCEPT !.email_verification_required = TRUE])
    /\ UNCHANGED <<users, nextUserId, email_verifications, password_resets, transactions,
                   nextTok, now, ticks, issued, workers, hist>>

\* ---------------------------------------------------- auth.generate_token
generate_token(user_id, role, t) ==
    [sub |-> str(user_id), role |-> role, exp |-> t + AccessTokenHours]

\* ---------------------------------------------------- auth_routes.login
\* lines 131-138: the lookup by email (lower-cased) or by username (regex)
LoginFindUser(username_or_email) ==
    IF HasAt(username_or_email)
    THEN FirstUser({u \in users : u.email = Lower(username_or_email)})
    ELSE FirstUser({u \in users : UsernameRegexMatches(username_or_email, u.username)})

\* lines 151-152: the verified check that precedes generate_token
LoginEmailVerified(user) == user.email_verified

\* lines 143-144 without the look at the flag
LoginIsActive_Skipped(user) == TRUE

\* lines 143-144
LoginIsActive(user) == user.is_active

login(w, username_or_email, password) ==
    /\ Idle(w)
    /\ LET r == [NoReq EXCEPT !.op = "login", !.username = username_or_email,
                              !.password = password]
           user == LoginFindUser(username_or_email)
           ru == [r EXCEPT !.user = user]
           token == generate_token(user._id, user.role, now)
       IN  IF username_or_email = NoValue \/ password = NoValue
           THEN Return(w, r, 400, "Username/email and password are required")
                /\ UNCHANGED issued
           ELSE IF user = NoUser
           THEN Return(w, ru, 401, "Invalid username/email or password")
                /\ UNCHANGED issued
           ELSE IF ~LoginIsActive(user)
           THEN Return(w, ru, 403, "Account is deactivated. Please contact support.")
                /\ UNCHANGED issued
           ELSE IF ~check_password_hash(user.password, password)
           THEN Return(w, ru, 401, "Invalid username/email or password")
                /\ UNCHANGED issued
           ELSE IF ~LoginEmailVerified(user)
           THEN ReturnBody(w, ru,
                    [Response(403, "Please verify your email address before logging in. Check your email inbox for the verification link.")
                        EXCEPT !.email_verification_required = TRUE])
                /\ UNCHANGED issued
           ELSE /\ Cardinality(issued \cup {token}) <= MaxAccessTokens
                /\ issued' = issued \cup {token}
                /\ ReturnBody(w, ru, [Response(200, "Login successful") EXCEPT !.token = token])
    /\ UNCHANGED <<db, now, ticks, workers, hist>>

\* --------------------------------------------- auth_routes.verify_email
\* line 315 without the comparison
VerifyExpired_Never(token_exists, t) == FALSE

\* line 315: expires_at <= utcnow()
VerifyExpired(token_exists, t) == token_exists.expires_at <= t

\* the messages of lines 310/347, 312/330 and 353
AlreadyVerifiedMessage == "Email is already verified. You can now log in."
AlreadyUsedMessage == "This verification link has already been used"
VerifiedMessage == "Email verified successfully. You can now log in."

\* line 305: token_exists.get('used', False)
VerifyTokenUsed(token_exists) == token_exists.used

\* lines 309 and 345: the owner exists and is verified
OwnerVerified(user) == user # NoUser /\ user.email_verified

\* the latest token stored for the owner of token_exists after it, once no
\* resend-verification is under way; NoToken when there is none
LaterToken(token_exists) ==
    LET later == {e.token : e \in {x \in email_verifications :
                                       /\ x.user_id = token_exists.user_id
                                       /\ x.token > token_exists.token}}
    IN  IF later = {} \/ \E v \in workers : req[v].op = "resend_verification"
        THEN NoToken
        ELSE CHOOSE t \in later : \A q \in later : q <= t

\* lines 294-317: the ledger lookup, the used check and the expiry check
verify_email(w, token) ==
    /\ Idle(w)
    /\ LET r == [NoReq EXCEPT !.op = "verify_email", !.token = token, !.t = now]
           token_exists == FirstRec({e \in email_verifications :
                                        e.token = token /\ e.type = "email_verification"})
           rt == [r EXCEPT !.trec = token_exists, !.newer = LaterToken(token_exists)]
       IN  IF token = NoToken
           THEN Return(w, r, 400, "Verification token is required")
           ELSE IF token_exists = NoRec
           THEN Return(w, r, 400, "Invalid verification token")
           ELSE IF VerifyTokenUsed(token_exists)
           THEN Goto(w, rt, "verify_email_used")
           ELSE IF VerifyExpired(token_exists, now)
           THEN Return(w, rt, 400, "Verification link has expired. Please request a new one.")
           ELSE Goto(w, rt, "verify_email_mark_used")
    /\ UNCHANGED <<db, now, ticks, issued, workers, hist>>

\* lines 307-312: the token was used; look at its owner
verify_email_used(w) ==
    /\ w \in workers
    /\ pc[w] = "verify_email_used"
    /\ LET user == UserById(ObjectId(req[w].trec.user_id))
           r == [req[w] EXCEPT !.user = user]
       IN  IF OwnerVerified(user)
           THEN Return(w, r, 200, AlreadyVerifiedMessage)
           ELSE Return(w, r, 400, AlreadyUsedMessage)
    /\ UNCHANGED <<db, now, ticks, issued, workers, hist>>

\* lines 320-326 with a filter that names no record
MarkUsedFilter_AnyUnused(e, token_exists) == e.used = FALSE

\* lines 320-326: the filter of the conditional update
MarkUsedFilter(e, token_exists) == e.token = token_exists.token /\ e.used = FALSE

\* line 328: the update changed no record
MarkLost(modified_count) == modified_count = 0

\* lines 319-326 as an update that flips the flag of the record whatever
\* its value
MarkUsedUpdate_Toggle(ledger, token_exists) ==
    {IF e.token = token_exists.token THEN [e EXCEPT !.used = ~e.used] ELSE e : e \in ledger}

\* lines 319-326: the ledger after update_one(filter, {$set: {used: True}})
MarkUsedUpdate(ledger, token_exists) ==
    {IF MarkUsedFilter(e, token_exists) THEN [e EXCEPT !.used = TRUE] ELSE e : e \in ledger}

\* lines 319-330: update_one({_id, used: False}, {$set: {used: True}}); the
\* ledger record is identified by its token, which is unique as _id is
verify_email_mark_used(w) ==
    /\ w \in workers
    /\ pc[w] = "verify_email_mark_used"
    /\ LET token_exists == req[w].trec
           matched == {e \in email_verifications : MarkUsedFilter(e, token_exists)}
           modified == {e \in matched : ~e.used}
           modified_count == Cardinality(modified)
       IN  /\ email_verifications' = MarkUsedUpdate(email_verifications, token_exists)
           /\ marked' = [marked EXCEPT ![token_exists.token] = @ + modified_count]
           /\ IF MarkLost(modified_count)
              THEN Return(w, [req[w] EXCEPT !.mark = "lost"], 400, AlreadyUsedMessage)
              ELSE Goto(w, [req[w] EXCEPT !.mark = "won"], "verify_email_update_user")
    /\ UNCHANGED <<users, nextUserId, password_resets, categories, transactions, nextTok,
                   nextOid, now, ticks, issued, workers, applied>>

\* the $set and $unset of lines 336-339 applied to one user document
VerifiedUser(u) == [u EXCEPT !.email_verified = TRUE, !.email_verification_token = NoToken]

\* lines 332-342: users.update_one; modified_count is 0 when no document
\* matches or when the matched document already has these values
verify_email_update_user(w) ==
    /\ w \in workers
    /\ pc[w] = "verify_email_update_user"
    /\ LET user_id == ObjectId(req[w].trec.user_id)
           matched == {u \in users : u._id = user_id}
           modified == {u \in matched : VerifiedUser(u) # u}
           r == [req[w] EXCEPT !.uid = user_id, !.wrote_user = TRUE]
       IN  /\ users' = (users \ matched) \cup {VerifiedUser(u) : u \in matched}
           /\ applied' = [applied EXCEPT ![req[w].trec.token] = @ + Cardinality(matched)]
           /\ IF modified = {}
              THEN Goto(w, r, "verify_email_recheck")
              ELSE Return(w, r, 200, VerifiedMessage)
    /\ UNCHANGED <<nextUserId, email_verifications, password_resets, categories, transactions, nextTok,
                   nextOid, now, ticks, issued, workers, marked>>

\* lines 343-350
verify_email_recheck(w) ==
    /\ w \in workers
    /\ pc[w] = "verify_email_recheck"
    /\ LET user == UserById(req[w].uid)
           r == [req[w] EXCEPT !.user = user]
       IN  IF OwnerVerified(user)
           THEN Return(w, r, 200, AlreadyVerifiedMessage)
           ELSE Return(w, r, 404, "User not found")
    /\ UNCHANGED <<db, now, ticks, issued, workers, hist>>

\* -------------------------------------- auth_routes.resend_verification
\* line 381 without the look at the flag
ResendAlreadyVerified_Skipped(user) == FALSE

\* line 381: user.get('email_verified', False)
ResendAlreadyVerified(user) == user.email_verified

\* lines 363-388: validation, the user lookup, the new token is drawn
resend_verification(w, email_in) ==
    /\ Idle(w)
    /\ nextTok + PendingTokens <= MaxTokens
    /\ LET email == Lower(email_in)
           r == [NoReq EXCEPT !.op = "resend_verification", !.email = email]
           user == FirstUser({u \in users : u.email = email})
       IN  IF email_in = NoValue
           THEN Return(w, r, 400, "Email is required") /\ UNCHANGED nextTok
           ELSE IF ~is_valid_email(email)
           THEN Return(w, r, 400, "Invalid email format") /\ UNCHANGED nextTok
           ELSE IF user = NoUser
           THEN Return(w, r, 404, "User not found") /\ UNCHANGED nextTok
           ELSE IF ResendAlreadyVerified(user)
           THEN Return(w, [r EXCEPT !.user = user], 400,
                       "Email is already verified. You can now log in.")
                /\ UNCHANGED nextTok
           ELSE /\ Goto(w, [r EXCEPT !.user = user, !.uid = user._id, !.username = user.username,
                                     !.token = nextTok],
                        "resend_verification_update_user")
                /\ nextTok' = nextTok + 1
    /\ UNCHANGED <<users, nextUserId, email_verifications, password_resets, categories, transactions,
                   nextOid, now, ticks, issued, workers, hist>>

\* lines 390-394: users.update_one stores the raw token on the user
resend_verification_update_user(w) ==
    /\ w \in workers
    /\ pc[w] = "resend_verification_update_user"
    /\ users' = {IF u._id = req[w].uid
                 THEN [u EXCEPT !.email_verification_token = req[w].token]
                 ELSE u : u \in users}
    /\ Goto(w, req[w], "save_verification_token")
    /\ UNCHANGED <<nextUserId, email_verifications, password_resets, categories, transactions, nextTok,
                   nextOid, now, ticks, issued, workers, hist>>

\* ---------------------------- email_service.save_password_reset_token
ResetRec(user_id, token, t) ==
    [user_id |-> str(user_id), token |-> token, type |-> "password_reset",
     expires_at |-> t + ResetTokenHours, used |-> FALSE]

\* lines 42-56: expires_at is computed, then delete_many
save_password_reset_token(w) ==
    /\ w \in workers
    /\ pc[w] = "save_password_reset_token"
    /\ password_resets' = {e \in password_resets : e.user_id # str(req[w].uid)}
    /\ Goto(w, [req[w] EXCEPT !.trec = ResetRec(req[w].uid, req[w].token, now)],
            "save_password_reset_token_insert")
    /\ UNCHANGED <<users, nextUserId, email_verifications, categories, transactions, nextTok,
                   nextOid, now, ticks, issued, workers, hist>>

\* line 58: insert_one
save_password_reset_token_insert(w) ==
    /\ w \in workers
    /\ pc[w] = "save_password_reset_token_insert"
    /\ password_resets' = password_resets \cup {req[w].trec}
    /\ Goto(w, req[w], "send_password_reset_email")
    /\ UNCHANGED <<users, nextUserId, email_verifications, categories, transactions, nextTok,
                   nextOid, now, ticks, issued, workers, hist>>

\* ------------------------------------------ auth_routes.forgot_password
\* line 205: the answer for an email that no user has
ForgotUnknownMessage == "If the email exists, a password reset link has been sent"

\* line 226: the answer once the reset email of an existing user is sent
ForgotSentMessage == "Password reset link sent to email"

\* line 209: the answer for an account that is not verified
ForgotVerifyFirstMessage ==
    "Please verify your email address first. Check your inbox for verification email."

\* line 208 without the look at the flag
ForgotEmailVerified_Skipped(user) == TRUE

\* line 208: user.get('email_verified', False)
ForgotEmailVerified(user) == user.email_verified

\* lines 186-212: validation, the user lookup, the reset token is drawn
forgot_password(w, email_in) ==
    /\ Idle(w)
    /\ nextTok + PendingTokens <= MaxTokens
    /\ LET email == Lower(email_in)
           r == [NoReq EXCEPT !.op = "forgot_password", !.email = email]
           user == FirstUser({u \in users : u.email = email})
       IN  IF email_in = NoValue
           THEN Return(w, r, 400, "Email is required") /\ UNCHANGED nextTok
           ELSE IF ~is_valid_email(email)
           THEN Return(w, r, 400, "Invalid email format") /\ UNCHANGED nextTok
           ELSE IF user = NoUser
           THEN Return(w, r, 200, ForgotUnknownMessage) /\ UNCHANGED nextTok
           ELSE IF ~ForgotEmailVerified(user)
           THEN Return(w, [r EXCEPT !.user = user], 400, ForgotVerifyFirstMessage)
                /\ UNCHANGED nextTok
           ELSE /\ Goto(w, [r EXCEPT !.user = user, !.uid = user._id, !.token = nextTok],
                        "save_password_reset_token")
                /\ nextTok' = nextTok + 1
    /\ UNCHANGED <<users, nextUserId, email_verifications, password_resets, categories, transactions,
                   nextOid, now, ticks, issued, workers, hist>>

\* lines 217-229: the transport delivers or fails
send_password_reset_email(w, success) ==
    /\ w \in workers
    /\ pc[w] = "send_password_reset_email"
    /\ LET r == [req[w] EXCEPT !.sent = success]
       IN  IF success
           THEN Return(w, r, 200, ForgotSentMessage)
           ELSE Return(w, r, 500, "Error sending email")
    /\ UNCHANGED <<db, now, ticks, issued, workers, hist>>

\* ------------------------------------------- auth_routes.reset_password
\* lines 252-255: the filter of the reset lookup
ResetTokenFilter(e, token, t) == e.token = token /\ e.expires_at > t

\* a reset with this token has replaced a hash and the record is gone
ResetRedeemed(token) ==
    /\ token \in 1..MaxTokens
    /\ applied[token] >= 1
    /\ ~\E e \in password_resets : e.token = token

\* lines 239-258: validation and the ledger lookup
reset_password(w, token, password) ==
    /\ Idle(w)
    /\ LET r == [NoReq EXCEPT !.op = "reset_password", !.token = token, !.password = password,
                              !.t = now, !.redeemed = ResetRedeemed(token)]
           reset_data == FirstRec({e \in password_resets : ResetTokenFilter(e, token, now)})
       IN  IF token = NoToken \/ password = NoValue
           THEN Return(w, r, 400, "Token and password are required")
           ELSE IF ~is_strong_password(password)
           THEN Return(w, r, 400, "Password must be at least 8 characters and include both letters and numbers")
           ELSE IF reset_data = NoRec
           THEN Return(w, r, 400, "Invalid or expired token")
           ELSE Goto(w, [r EXCEPT !.trec = reset_data, !.uid = ObjectId(reset_data.user_id)],
                     "reset_password_find_user")
    /\ UNCHANGED <<db, now, ticks, issued, workers, hist>>

\* line 264: users.find_one for the notification
reset_password_find_user(w) ==
    /\ w \in workers
    /\ pc[w] = "reset_password_find_user"
    /\ Goto(w, [req[w] EXCEPT !.user = UserById(req[w].uid)], "reset_password_update_user")
    /\ UNCHANGED <<db, now, ticks, issued, workers, hist>>

\* lines 266-269: users.update_one sets the new hash
reset_password_update_user(w) ==
    /\ w \in workers
    /\ pc[w] = "reset_password_update_user"
    /\ LET matched == {u \in users : u._id = req[w].uid}
       IN  /\ users' = (users \ matched) \cup
                  {[u EXCEPT !.password = generate_password_hash(req[w].password)] : u \in matched}
           /\ applied' = [applied EXCEPT ![req[w].trec.token] = @ + Cardinality(matched)]
    /\ Goto(w, [req[w] EXCEPT !.wrote_user = TRUE], "reset_password_delete_token")
    /\ UNCHANGED <<nextUserId, email_verifications, password_resets, categories, transactions, nextTok,
                   nextOid, now, ticks, issued, workers, marked>>

\* line 272 with a filter that matches nothing
ResetDeleteFilter_None(e, reset_data) == FALSE

\* line 272: the filter of delete_one, the record that was read (its token
\* identifies it as its _id does)
ResetDeleteFilter(e, reset_data) == e.token = reset_data.token

\* line 272: password_resets.delete_one; lines 275-282: the notification is
\* sent only when the user was found
reset_password_delete_token(w) ==
    /\ w \in workers
    /\ pc[w] = "reset_password_delete_token"
    /\ password_resets' = {e \in password_resets : ~ResetDeleteFilter(e, req[w].trec)}
    /\ IF req[w].user # NoUser
       THEN Goto(w, req[w], "send_password_change_notification")
       ELSE Return(w, req[w], 200, "Password reset successful")
    /\ UNCHANGED <<users, nextUserId, email_verifications, categories, transactions, nextTok,
                   nextOid, now, ticks, issued, workers, hist>>

\* lines 275-282 as if a failed notification were reported
ResetResponse_FailOnSend(success) ==
    IF success THEN Response(200, "Password reset successful")
    ELSE Response(500, "Error sending email")

\* lines 275-282: the result of the notification is not looked at
ResetResponse(success) == Response(200, "Password reset successful")

\* email_service.send_password_change_notification: the transport delivers
\* or fails
send_password_change_notification(w, success) ==
    /\ w \in workers
    /\ pc[w] = "send_password_change_notification"
    /\ ReturnBody(w, [req[w] EXCEPT !.sent = success], ResetResponse(success))
    /\ UNCHANGED <<db, now, ticks, issued, workers, hist>>

\* -------------------------------------------------- auth.decode_token
\* lines 29-30 without the expiry error
decode_token_NoExpiry(jwt, signed, t) ==
    IF ~signed THEN [error |-> "Invalid token. Please log in again.", payload |-> NoPayload]
    ELSE [error |-> NoValue, payload |-> jwt]

\* lines 29-30 as if a token were good for the hour of its issue only
decode_token_OneHour(jwt, signed, t) ==
    IF ~signed THEN [error |-> "Invalid token. Please log in again.", payload |-> NoPayload]
    ELSE IF jwt.exp < t + AccessTokenHours
    THEN [error |-> "Token expired. Please log in again.", payload |-> NoPayload]
    ELSE [error |-> NoValue, payload |-> jwt]

\* jwt.decode: a token not signed with SECRET_KEY is invalid, a signed one
\* is expired once its exp is not after the current time
decode_token(jwt, signed, t) ==
    IF ~signed THEN [error |-> "Invalid token. Please log in again.", payload |-> NoPayload]
    ELSE IF jwt.exp <= t
    THEN [error |-> "Token expired. Please log in again.", payload |-> NoPayload]
    ELSE [error |-> NoValue, payload |-> jwt]

\* a token an attacker made up: it names the admin, it is not signed
ForgedAdmin == [sub |-> str(1), role |-> "admin", exp |-> now + AccessTokenHours]

\* the codec on its own: generate_token for a subject and a role, then, at
\* some later time, decode_token of the token, as it left the server or
\* with its signature broken
Roles == {"user", "admin"}

issue(w, subject_id, role) ==
    /\ Idle(w)
    /\ LET token == generate_token(subject_id, role, now)
       IN  /\ Cardinality(issued \cup {token}) <= MaxAccessTokens
           /\ issued' = issued \cup {token}
           /\ Goto(w, [NoReq EXCEPT !.op = "codec", !.uid = subject_id, !.role = role,
                                     !.t = now, !.payload = token],
                    "decode_token")
    /\ UNCHANGED <<db, now, ticks, workers, hist>>

verify(w, signed) ==
    /\ w \in workers
    /\ pc[w] = "decode_token"
    /\ LET decoded == decode_token(req[w].payload, signed, now)
       IN  ReturnBody(w, [req[w] EXCEPT !.checked_at = now,
                                        !.header = Bearer(req[w].payload, signed)],
                      [NoResp EXCEPT !.code = IF decoded.error = NoValue THEN 200 ELSE 401,
                                     !.message = decoded.error,
                                     !.token = decoded.payload])
    /\ UNCHANGED <<db, now, ticks, issued, workers, hist>>

AdminRoutes == {"get_users", "toggle_user_status", "delete_user"}
UserRoutes == {"get_profile", "delete_account", "update_profile", "change_password"}

\* ---------------------------------------------------- auth.token_required
\* lines 59-63: the subject must exist and be active
GateUserFound_Skipped(user) == TRUE

GateUserFound(user) == user # NoUser
GateIsActive(user) == user.is_active

\* ---------------------------------------------------- auth.admin_required
\* line 76
AdminRequiredPasses(payload) == payload.role = "admin"

\* token_required lines 38-68, and for the admin routes admin_required
\* lines 75-78, up to the call of the wrapped handler
token_required(w, route, header, target) ==
    /\ Idle(w)
    /\ LET r == [NoReq EXCEPT !.op = route, !.target = target, !.header = header]
           decoded == decode_token(header.jwt, header.signed, now)
           payload == decoded.payload
           user == UserById(ObjectId(payload.sub))
           rp == [r EXCEPT !.payload = payload, !.gate_user = user]
       IN  IF header.scheme = NoValue \/ header.jwt = NoPayload
           THEN Return(w, r, 401, "Token is missing")
           ELSE IF decoded.error # NoValue
           THEN Return(w, r, 401, decoded.error)
           ELSE IF ~GateUserFound(user)
           THEN Return(w, rp, 401, "User not found")
           ELSE IF ~GateIsActive(user)
           THEN Return(w, rp, 401, "Account is deactivated")
           ELSE IF route \in AdminRoutes /\ ~AdminRequiredPasses(payload)
           THEN Return(w, rp, 403, "Admin privilege required")
           ELSE Goto(w, [rp EXCEPT !.invoked = TRUE], route)
    /\ UNCHANGED <<db, now, ticks, issued, workers, hist>>

\* ------------------------------------------------ user_routes.get_profile
get_profile(w) ==
    /\ w \in workers
    /\ pc[w] = "get_profile"
    /\ LET user == UserById(ObjectId(req[w].payload.sub))
           r == [req[w] EXCEPT !.user = user]
       IN  IF user = NoUser
           THEN Return(w, r, 404, "User not found")
           ELSE Return(w, r, 200, "profile")
    /\ UNCHANGED <<db, now, ticks, issued, workers, hist>>

\* --------------------------------------------- user_routes.update_profile
\* the JSON body of PUT /profile: given says that it holds first_name or
\* last_name, email is the value of its email field, NoValue when it has none
ProfileBody(given, email) == [given |-> given, email |-> email]

\* lines 60-64 as an update that also withdraws the verification when the
\* address changes
ProfileUpdatedUser_Unverify(u, email) ==
    IF email = NoValue \/ email = u.email THEN u
    ELSE [u EXCEPT !.email = email, !.email_verified = FALSE]

\* lines 60-64: the $set of update_data applied to one user document; the
\* name fields are not part of the modelled document
ProfileUpdatedUser(u, email) ==
    IF email = NoValue THEN u ELSE [u EXCEPT !.email = email]

\* lines 36-57: the body, and when it has an email the lookup of another
\* user with that very string
update_profile(w, data) ==
    /\ w \in workers
    /\ pc[w] = "update_profile"
    /\ LET r == [req[w] EXCEPT !.email = data.email, !.given = data.given]
           existing_user == FirstUser({u \in users :
                                /\ u.email = data.email
                                /\ u._id # ObjectId(req[w].payload.sub)})
       IN  IF ~data.given /\ data.email = NoValue
           THEN Return(w, r, 400, "No data provided")
           ELSE IF data.email # NoValue /\ existing_user # NoUser
           THEN Return(w, [r EXCEPT !.user = existing_user], 409, "Email already in use")
           ELSE Goto(w, r, "update_profile_update")
    /\ UNCHANGED <<db, now, ticks, issued, workers, hist>>

\* lines 59-66: users.update_one({'_id': sub}, {'$set': update_data})
update_profile_update(w) ==
    /\ w \in workers
    /\ pc[w] = "update_profile_update"
    /\ users' = {IF u._id = ObjectId(req[w].payload.sub)
                 THEN ProfileUpdatedUser(u, req[w].email)
                 ELSE u : u \in users}
    /\ Return(w, [req[w] EXCEPT !.wrote_user = TRUE], 200, "Profile updated successfully")
    /\ UNCHANGED <<nextUserId, email_verifications, password_resets, categories, transactions,
                   nextTok, nextOid, now, ticks, issued, workers, hist>>

\* -------------------------------------------- user_routes.change_password
\* line 90: len(new_password) < 8
MinPasswordLength == 8

\* lines 74-91: the body, the lookup of the caller, the current password
\* and the length of the new one
change_password(w, current_password, new_password) ==
    /\ w \in workers
    /\ pc[w] = "change_password"
    /\ LET user == UserById(ObjectId(req[w].payload.sub))
           r == [req[w] EXCEPT !.current_password = current_password,
                               !.password = new_password]
           ru == [r EXCEPT !.user = user]
       IN  IF current_password = NoValue \/ new_password = NoValue
           THEN Return(w, r, 400, "Current password and new password are required")
           ELSE IF user = NoUser
           THEN Return(w, ru, 404, "User not found")
           ELSE IF ~check_password_hash(user.password, current_password)
           THEN Return(w, ru, 401, "Current password is incorrect")
           ELSE IF Len(new_password) < MinPasswordLength
           THEN Return(w, ru, 400, "Password must be at least 8 characters long")
           ELSE Goto(w, ru, "change_password_update")
    /\ UNCHANGED <<db, now, ticks, issued, workers, hist>>

\* lines 93-101: users.update_one sets the hash of the new password
change_password_update(w) ==
    /\ w \in workers
    /\ pc[w] = "change_password_update"
    /\ users' = {IF u._id = ObjectId(req[w].payload.sub)
                 THEN [u EXCEPT !.password = generate_password_hash(req[w].password)]
                 ELSE u : u \in users}
    /\ Return(w, [req[w] EXCEPT !.wrote_user = TRUE], 200, "Password changed successfully")
    /\ UNCHANGED <<nextUserId, email_verifications, password_resets, categories, transactions,
                   nextTok, nextOid, now, ticks, issued, workers, hist>>

\* ------------------------------------------------- admin_routes.get_users
get_users(w) ==
    /\ w \in workers
    /\ pc[w] = "get_users"
    /\ Return(w, req[w], 200, "users")
    /\ UNCHANGED <<db, now, ticks, issued, workers, hist>>

\* ---------------------------------------- admin_routes.toggle_user_status
\* lines 85-97: the lookup of the target; user id 0 stands for a string that
\* is no ObjectId
toggle_user_status(w) ==
    /\ w \in workers
    /\ pc[w] = "toggle_user_status"
    /\ LET user == UserById(req[w].target)
           r == [req[w] EXCEPT !.user = user]
       IN  IF req[w].target = 0
           THEN Return(w, req[w], 400, "Invalid user ID")
           ELSE IF user = NoUser
           THEN Return(w, r, 404, "User not found")
           ELSE IF str(user._id) = req[w].payload.sub /\ user.role = "admin"
           THEN Return(w, r, 400, "Cannot deactivate your own admin account")
           ELSE Goto(w, r, "toggle_user_status_update")
    /\ UNCHANGED <<db, now, ticks, issued, workers, hist>>

\* lines 97-109: users.update_one writes the negation of the value read
toggle_user_status_update(w) ==
    /\ w \in workers
    /\ pc[w] = "toggle_user_status_update"
    /\ LET new_status == ~req[w].user.is_active
       IN  /\ users' = {IF u._id = req[w].target THEN [u EXCEPT !.is_active = new_status]
                        ELSE u : u \in users}
           /\ Return(w, req[w], 200,
                     IF new_status THEN "User activated successfully"
                     ELSE "User deactivated successfully")
    /\ UNCHANGED <<nextUserId, email_verifications, password_resets, categories, transactions, nextTok,
                   nextOid, now, ticks, issued, workers, hist>>

\* ---------------------------------------------- admin_routes.delete_user
\* lines 119-129: the lookup of the target.  The <user_id> of the URL is the
\* string form of req[w].target; 0 stands for a string that is no ObjectId
delete_user(w) ==
    /\ w \in workers
    /\ pc[w] = "delete_user"
    /\ LET user == UserById(req[w].target)
           r == [req[w] EXCEPT !.user = user]
       IN  IF req[w].target = 0
           THEN Return(w, req[w], 400, "Invalid user ID")
           ELSE IF user = NoUser
           THEN Return(w, r, 404, "User not found")
           ELSE IF str(user._id) = req[w].payload.sub /\ user.role = "admin"
           THEN Return(w, r, 400, "Cannot delete your own admin account")
           ELSE Goto(w, r, "delete_user_transactions")
    /\ UNCHANGED <<db, now, ticks, issued, workers, hist>>

\* line 132: transactions.delete_many({'user_id': user_id})
delete_user_transactions(w) ==
    /\ w \in workers
    /\ pc[w] = "delete_user_transactions"
    /\ transactions' = {t \in transactions : t.user_id # str(req[w].target)}
    /\ Goto(w, req[w], "delete_user_categories")
    /\ UNCHANGED <<users, nextUserId, email_verifications, password_resets, categories,
                   nextTok, nextOid, now, ticks, issued, workers, hist>>

\* lines 134-137: categories.delete_many({'user_id': user_id, 'is_default': False})
delete_user_categories(w) ==
    /\ w \in workers
    /\ pc[w] = "delete_user_categories"
    /\ categories' = {c \in categories :
                         ~(c.user_id = str(req[w].target) /\ c.is_default = FALSE)}
    /\ Goto(w, req[w], "delete_user_delete")
    /\ UNCHANGED <<users, nextUserId, email_verifications, password_resets, transactions,
                   nextTok, nextOid, now, ticks, issued, workers, hist>>

\* lines 141-143: users.delete_one
delete_user_delete(w) ==
    /\ w \in workers
    /\ pc[w] = "delete_user_delete"
    /\ users' = {u \in users : u._id # req[w].target}
    /\ Return(w, req[w], 200, "User and all associated data deleted successfully")
    /\ UNCHANGED <<nextUserId, email_verifications, password_resets, categories, transactions,
                   nextTok, nextOid, now, ticks, issued, workers, hist>>

\* -------------------------------------------- user_routes.delete_account
\* lines 242-256: the password of the body, the lookup of the caller
delete_account(w, password) ==
    /\ w \in workers
    /\ pc[w] = "delete_account"
    /\ LET user == UserById(ObjectId(req[w].payload.sub))
           r == [req[w] EXCEPT !.password = password]
           ru == [r EXCEPT !.user = user]
       IN  IF password = NoValue
           THEN Return(w, r, 400, "Password is required to delete your account")
           ELSE IF user = NoUser
           THEN Return(w, ru, 404, "User not found")
           ELSE IF ~check_password_hash(user.password, password)
           THEN Return(w, ru, 401, "Password is incorrect")
           ELSE Goto(w, ru, "delete_account_transactions")
    /\ UNCHANGED <<db, now, ticks, issued, workers, hist>>

\* line 259: transactions.delete_many({'user_id': current_user['sub']})
delete_account_transactions(w) ==
    /\ w \in workers
    /\ pc[w] = "delete_account_transactions"
    /\ transactions' = {t \in transactions : t.user_id # req[w].payload.sub}
    /\ Goto(w, req[w], "delete_account_categories")
    /\ UNCHANGED <<users, nextUserId, email_verifications, password_resets, categories,
                   nextTok, nextOid, now, ticks, issued, workers, hist>>

\* lines 261-264: categories.delete_many({'user_id': sub, 'is_default': False})
delete_account_categories(w) ==
    /\ w \in workers
    /\ pc[w] = "delete_account_categories"
    /\ categories' = {c \in categories :
                         ~(c.user_id = req[w].payload.sub /\ c.is_default = FALSE)}
    /\ Goto(w, req[w], "delete_account_delete")
    /\ UNCHANGED <<users, nextUserId, email_verifications, password_resets, transactions,
                   nextTok, nextOid, now, ticks, issued, workers, hist>>

\* lines 268-269: users.delete_one
delete_account_delete(w) ==
    /\ w \in workers
    /\ pc[w] = "delete_account_delete"
    /\ users' = {u \in users : u._id # ObjectId(req[w].payload.sub)}
    /\ Return(w, req[w], 200, "Account deleted successfully")
    /\ UNCHANGED <<nextUserId, email_verifications, password_resets, categories, transactions,
                   nextTok, nextOid, now, ticks, issued, workers, hist>>

\* ------------------------------------- transaction_routes.add_transaction
TransactionTypes == {"income", "expense"}

\* lines 16-32: the body, then categories.find_one({'_id': category_id});
\* the category_id of a body is the string form of an ObjectId
add_transaction(w, data) ==
    /\ w \in workers
    /\ pc[w] = "add_transaction"
    /\ LET r == [req[w] EXCEPT !.data = data]
           category == FirstCategory({c \in categories : c._id = data.category_id})
       IN  IF data = NoBody
           THEN Return(w, r, 400, "No data provided")
           ELSE IF ~data.amount
           THEN Return(w, r, 400, "Missing required field: amount")
           ELSE IF data.type = NoValue
           THEN Return(w, r, 400, "Missing required field: type")
           ELSE IF data.category_id = 0
           THEN Return(w, r, 400, "Missing required field: category_id")
           ELSE IF data.type \notin TransactionTypes
           THEN Return(w, r, 400, "Transaction type must be either income or expense")
           ELSE IF category = NoCategory
           THEN Return(w, r, 404, "Category not found")
           ELSE Goto(w, [r EXCEPT !.category = category], "add_transaction_insert")
    /\ UNCHANGED <<db, now, ticks, issued, workers, hist>>

\* lines 35-51: transactions.insert_one
add_transaction_insert(w) ==
    /\ w \in workers
    /\ pc[w] = "add_transaction_insert"
    /\ LET data == req[w].data
           transaction == TransactionDoc(nextOid, req[w].payload.sub, data.type,
                                         str(data.category_id), req[w].category.name, data.note)
       IN  /\ transactions' = transactions \cup {transaction}
           /\ nextOid' = nextOid + 1
           /\ Return(w, [req[w] EXCEPT !.transaction = transaction], 201,
                     "Transaction added successfully")
    /\ UNCHANGED <<users, nextUserId, email_verifications, password_resets, categories,
                   nextTok, now, ticks, issued, workers, hist>>

\* ------------------------------------- transaction_routes.get_transaction
\* lines 179-182, 205-208, 259-262 and 481-484 with a filter on the id only
TransactionFilter_AnyOwner(t, transaction_id, sub) == t._id = transaction_id

\* lines 179-182, 205-208, 259-262 and 481-484: the filter by id and owner
TransactionFilter(t, transaction_id, sub) == t._id = transaction_id /\ t.user_id = sub

\* lines 178-191; the <transaction_id> of the URL is the string form of
\* req[w].target, 0 stands for a string that is no ObjectId
get_transaction(w) ==
    /\ w \in workers
    /\ pc[w] = "get_transaction"
    /\ LET transaction == FirstTransaction({t \in transactions :
                              TransactionFilter(t, req[w].target, req[w].payload.sub)})
       IN  IF req[w].target = 0
           THEN Return(w, req[w], 400, "Invalid transaction ID")
           ELSE IF transaction = NoTransaction
           THEN Return(w, req[w], 404, "Transaction not found")
           ELSE Return(w, [req[w] EXCEPT !.transaction = transaction], 200, "transaction")
    /\ UNCHANGED <<db, now, ticks, issued, workers, hist>>

\* ---------------------------------- transaction_routes.update_transaction
\* lines 198-224: the body, the lookup of the transaction, the type
update_transaction(w, data) ==
    /\ w \in workers
    /\ pc[w] = "update_transaction"
    /\ LET r == [req[w] EXCEPT !.data = data]
           transaction == FirstTransaction({t \in transactions :
                              TransactionFilter(t, req[w].target, req[w].payload.sub)})
           rt == [r EXCEPT !.transaction = transaction]
       IN  IF data = NoBody
           THEN Return(w, r, 400, "No data provided")
           ELSE IF req[w].target = 0
           THEN Return(w, r, 400, "Invalid transaction ID")
           ELSE IF transaction = NoTransaction
           THEN Return(w, r, 404, "Transaction not found or access denied")
           ELSE IF data.type # NoValue /\ data.type \notin TransactionTypes
           THEN Return(w, rt, 400, "Transaction type must be either income or expense")
           ELSE IF data.category_id # 0
           THEN Goto(w, rt, "update_transaction_find_category")
           ELSE Goto(w, rt, "update_transaction_update")
    /\ UNCHANGED <<db, now, ticks, issued, workers, hist>>

\* lines 226-233: categories.find_one({'_id': category_id})
update_transaction_find_category(w) ==
    /\ w \in workers
    /\ pc[w] = "update_transaction_find_category"
    /\ LET category == FirstCategory({c \in categories : c._id = req[w].data.category_id})
       IN  IF category = NoCategory
           THEN Return(w, req[w], 404, "Category not found")
           ELSE Goto(w, [req[w] EXCEPT !.category = category], "update_transaction_update")
    /\ UNCHANGED <<db, now, ticks, issued, workers, hist>>

\* the $set of update_data (lines 216-242) applied to one document
UpdatedTransaction(t, data, category) ==
    [t EXCEPT !.type = IF data.type # NoValue THEN data.type ELSE @,
              !.category_id = IF data.category_id # 0 THEN str(data.category_id) ELSE @,
              !.category_name = IF data.category_id # 0 THEN category.name ELSE @,
              !.note = IF data.note # NoValue THEN data.note ELSE @]

\* lines 245-250: transactions.update_one({'_id': transaction_id}, ...)
update_transaction_update(w) ==
    /\ w \in workers
    /\ pc[w] = "update_transaction_update"
    /\ transactions' = {IF t._id = req[w].target
                        THEN UpdatedTransaction(t, req[w].data, req[w].category)
                        ELSE t : t \in transactions}
    /\ Return(w, req[w], 200, "Transaction updated successfully")
    /\ UNCHANGED <<users, nextUserId, email_verifications, password_resets, categories,
                   nextTok, nextOid, now, ticks, issued, workers, hist>>

\* ---------------------------------- transaction_routes.delete_transaction
\* lines 258-269: transactions.delete_one({'_id', 'user_id'})
delete_transaction(w) ==
    /\ w \in workers
    /\ pc[w] = "delete_transaction"
    /\ LET matched == {t \in transactions :
                          TransactionFilter(t, req[w].target, req[w].payload.sub)}
           r == [req[w] EXCEPT !.deleted_count = Cardinality(matched)]
       IN  IF req[w].target = 0
           THEN Return(w, req[w], 400, "Invalid transaction ID") /\ UNCHANGED transactions
           ELSE /\ transactions' = transactions \ matched
                /\ IF matched = {}
                   THEN Return(w, r, 404, "Transaction not found or access denied")
                   ELSE Return(w, r, 200, "Transaction deleted successfully")
    /\ UNCHANGED <<users, nextUserId, email_verifications, password_resets, categories,
                   nextTok, nextOid, now, ticks, issued, workers, hist>>

\* ---------------------------- transaction_routes.bulk_delete_transactions
\* lines 362-388: transactions.delete_many({'_id': {'$in': ids}, 'user_id'});
\* an id 0 in the list stands for a string that is no ObjectId
bulk_delete_transactions(w, data) ==
    /\ w \in workers
    /\ pc[w] = "bulk_delete_transactions"
    /\ LET r == [req[w] EXCEPT !.data = data]
           matched == {t \in transactions :
                          /\ t._id \in data.transaction_ids
                          /\ t.user_id = req[w].payload.sub}
       IN  IF ~data.listed
           THEN Return(w, r, 400, "Transaction IDs are required") /\ UNCHANGED transactions
           ELSE IF data.transaction_ids = {}
           THEN Return(w, r, 400, "Invalid transaction IDs format") /\ UNCHANGED transactions
           ELSE IF 0 \in data.transaction_ids
           THEN Return(w, r, 400, "Error deleting transactions") /\ UNCHANGED transactions
           ELSE /\ transactions' = transactions \ matched
                /\ Return(w, [r EXCEPT !.deleted_count = Cardinality(matched)], 200,
                          ToString(Cardinality(matched)) \o " transactions deleted successfully")
    /\ UNCHANGED <<users, nextUserId, email_verifications, password_resets, categories,
                   nextTok, nextOid, now, ticks, issued, workers, hist>>

\* ------------------------------- transaction_routes.duplicate_transaction
\* lines 479-487: the lookup of the original
duplicate_transaction(w) ==
    /\ w \in workers
    /\ pc[w] = "duplicate_transaction"
    /\ LET original == FirstTransaction({t \in transactions :
                           TransactionFilter(t, req[w].target, req[w].payload.sub)})
       IN  IF req[w].target = 0
           THEN Return(w, req[w], 400, "Error duplicating transaction")
           ELSE IF original = NoTransaction
           THEN Return(w, req[w], 404, "Transaction not found")
           ELSE Goto(w, [req[w] EXCEPT !.transaction = original],
                     "duplicate_transaction_insert")
    /\ UNCHANGED <<db, now, ticks, issued, workers, hist>>

\* line 497: f"Copy of: {original.get('note', '')}"; a note that is None is
\* formatted as 'None'
CopyNote(note) == "Copy of: " \o (IF note = NoValue THEN "None" ELSE note)

\* lines 490-506: transactions.insert_one of the copy
duplicate_transaction_insert(w) ==
    /\ w \in workers
    /\ pc[w] = "duplicate_transaction_insert"
    /\ LET original == req[w].transaction
           new_transaction == TransactionDoc(nextOid, req[w].payload.sub, original.type,
                                             original.category_id, original.category_name,
                                             CopyNote(original.note))
       IN  /\ transactions' = transactions \cup {new_transaction}
           /\ nextOid' = nextOid + 1
           /\ Return(w, req[w], 201, "Transaction duplicated successfully")
    /\ UNCHANGED <<users, nextUserId, email_verifications, password_resets, categories,
                   nextTok, now, ticks, issued, workers, hist>>

\* ------------------------------------------ category_routes.add_category
\* lines 12-35: the body, then the lookup of a category of the caller with
\* this name and type
add_category(w, data) ==
    /\ w \in workers
    /\ pc[w] = "add_category"
    /\ LET r == [req[w] EXCEPT !.data = data]
           existing_category == FirstCategory({c \in categories :
                                    /\ c.name = data.name
                                    /\ c.type = data.type
                                    /\ c.user_id = req[w].payload.sub})
       IN  IF data = NoBody
           THEN Return(w, r, 400, "No data provided")
           ELSE IF data.name = NoValue
           THEN Return(w, r, 400, "Missing required field: name")
           ELSE IF data.type = NoValue
           THEN Return(w, r, 400, "Missing required field: type")
           ELSE IF data.type \notin TransactionTypes
           THEN Return(w, r, 400, "Category type must be either income or expense")
           ELSE IF existing_category # NoCategory
           THEN Return(w, [r EXCEPT !.category = existing_category], 409,
                       "Category with this name already exists")
           ELSE Goto(w, r, "add_category_insert")
    /\ UNCHANGED <<db, now, ticks, issued, workers, hist>>

\* lines 38-50: categories.insert_one
add_category_insert(w) ==
    /\ w \in workers
    /\ pc[w] = "add_category_insert"
    /\ LET category == CategoryDoc(nextOid, req[w].data.name, req[w].data.type,
                                   req[w].payload.sub)
       IN  /\ categories' = categories \cup {category}
           /\ nextOid' = nextOid + 1
           /\ Return(w, [req[w] EXCEPT !.category = category], 201, "Category added successfully")
    /\ UNCHANGED <<users, nextUserId, email_verifications, password_resets, transactions,
                   nextTok, now, ticks, issued, workers, hist>>

\* --------------------------------------- category_routes.delete_category
\* lines 173-186: the lookup by id, the default flag and the owner; the
\* <category_id> of the URL is the string form of req[w].target
delete_category(w) ==
    /\ w \in workers
    /\ pc[w] = "delete_category"
    /\ LET category == FirstCategory({c \in categories : c._id = req[w].target})
           r == [req[w] EXCEPT !.category = category]
       IN  IF req[w].target = 0
           THEN Return(w, req[w], 400, "Invalid category ID")
           ELSE IF category = NoCategory
           THEN Return(w, r, 404, "Category not found")
           ELSE IF category.is_default
           THEN Return(w, r, 403, "Cannot delete default categories")
           ELSE IF category.user_id # req[w].payload.sub
           THEN Return(w, r, 403, "Access denied")
           ELSE Goto(w, r, "delete_category_count")
    /\ UNCHANGED <<db, now, ticks, issued, workers, hist>>

\* lines 189-192: the filter of count_documents
CategoryInUse(t, category_id, sub) == t.category_id = category_id /\ t.user_id = sub

\* lines 189-198: transactions.count_documents
delete_category_count(w) ==
    /\ w \in workers
    /\ pc[w] = "delete_category_count"
    /\ LET transactions_count ==
               Cardinality({t \in transactions :
                               CategoryInUse(t, str(req[w].target), req[w].payload.sub)})
       IN  IF transactions_count > 0
           THEN Return(w, req[w], 400, "Category is used in transactions and cannot be deleted")
           ELSE Goto(w, req[w], "delete_category_delete")
    /\ UNCHANGED <<db, now, ticks, issued, workers, hist>>

\* lines 201-209: categories.delete_one({'_id', 'user_id'})
delete_category_delete(w) ==
    /\ w \in workers
    /\ pc[w] = "delete_category_delete"
    /\ LET matched == {c \in categories :
                          c._id = req[w].target /\ c.user_id = req[w].payload.sub}
           r == [req[w] EXCEPT !.deleted_count = Cardinality(matched)]
       IN  /\ categories' = categories \ matched
           /\ IF matched = {}
              THEN Return(w, r, 404, "Category not found or access denied")
              ELSE Return(w, r, 200, "Category deleted successfully")
    /\ UNCHANGED <<users, nextUserId, email_verifications, password_resets, transactions,
                   nextTok, nextOid, now, ticks, issued, workers, hist>>

\* ------------------------------------------------------------ the inputs
RegisterUsernames == Usernames \cup {NoValue}
RegisterEmails == Emails \cup {BadEmail}
RegisterPasswords == {"Passw0rd1", WeakPassword}
LoginNames == {"al", AdminEmail}
LoginPasswords == {"Passw0rd1", AdminPassword}
ForgotEmails == Emails \cup {AdminEmail}
TokenInputs == 0..(nextTok - 1) \cup {UnknownToken}
ResetPasswords == {"Passw0rd2", WeakPassword}
Headers == {NoHeader, BearerOnly, Bearer(ForgedAdmin, FALSE)} \cup {Bearer(j, TRUE) : j \in issued}
\* the <user_id> of the URL, for the routes that have one
RouteTargets(route) ==
    IF route \in {"toggle_user_status", "delete_user"} THEN 0..MaxUsers ELSE {0}
\* any first word in front of the token
HeadersAnyScheme == Headers \cup {Basic(j, TRUE) : j \in issued}
AccessRoutes == {"get_users", "toggle_user_status", "get_profile"}
GateRoutes == {"get_profile", "delete_account", "delete_user"}
DeletePasswords == {"Passw0rd1", NoValue}
ProfileBodies ==
    {ProfileBody(FALSE, NoValue), ProfileBody(TRUE, NoValue), ProfileBody(FALSE, "AL@x.io"),
     ProfileBody(FALSE, AdminEmail)}
CurrentPasswords == {"Passw0rd1", "Passw0rd2"}
NewPasswords == {"Passw0rd3", WeakPassword}
AccountRoutes == {"get_profile", "update_profile", "change_password", "toggle_user_status"}
TransactionRoutes ==
    {"add_transaction", "get_transaction", "update_transaction", "delete_transaction",
     "bulk_delete_transactions", "duplicate_transaction"}
CategoryRoutes == {"add_category", "delete_category"}
\* the ids of URLs and bodies: 0 for a string that is no ObjectId, the id of
\* the default category Food of the seeded user, and the ids that the
\* routes hand out
FoodId == CHOOSE i \in 1..Len(DefaultCategories) : DefaultCategories[i] = "Food"
ObjectIdInputs == {0} \cup (Len(DefaultCategories) + 1)..MaxObjectId
CategoryIdInputs == {FoodId} \cup (Len(DefaultCategories) + 1)..MaxObjectId
LedgerTargets(route) ==
    IF route \in {"get_transaction", "update_transaction", "delete_transaction",
                  "duplicate_transaction"}
    THEN ObjectIdInputs
    ELSE IF route = "delete_category" THEN ObjectIdInputs \cup {FoodId}
    ELSE {0}
AddTransactionBodies ==
    {NoBody,
     [NoBody EXCEPT !.type = "expense", !.category_id = FoodId],
     [NoBody EXCEPT !.amount = TRUE, !.category_id = FoodId],
     [NoBody EXCEPT !.amount = TRUE, !.type = "expense"],
     [NoBody EXCEPT !.amount = TRUE, !.type = "transfer", !.category_id = FoodId]}
    \cup {[NoBody EXCEPT !.amount = TRUE, !.type = "expense", !.category_id = c] :
              c \in CategoryIdInputs}
UpdateTransactionBodies ==
    {NoBody,
     [NoBody EXCEPT !.type = "income"],
     [NoBody EXCEPT !.type = "transfer"]}
    \cup {[NoBody EXCEPT !.category_id = c] : c \in CategoryIdInputs}
BulkDeleteBodies ==
    {NoBody} \cup {[NoBody EXCEPT !.listed = TRUE, !.transaction_ids = ids] :
                      ids \in SUBSET ObjectIdInputs}
AddCategoryBodies ==
    {NoBody,
     [NoBody EXCEPT !.type = "expense"],
     [NoBody EXCEPT !.name = "Pets"],
     [NoBody EXCEPT !.name = "Pets", !.type = "transfer"],
     [NoBody EXCEPT !.name = "Pets", !.type = "expense"],
     [NoBody EXCEPT !.name = "Food", !.type = "expense"]}
ClockSteps == {ResetTokenHours, VerificationTokenHours}

\* --------------------------------------------------- the handlers' steps
RegisterSteps(w) ==
    \/ register_find_email(w)
    \/ register_insert_user(w)
    \/ register_rollback(w)
    \/ register_default_categories(w)

SaveVerificationSteps(w) ==
    \/ save_verification_token(w)
    \/ save_verification_token_insert(w)
    \/ \E success \in BOOLEAN : send_verification_email(w, success)

VerifySteps(w) ==
    \/ verify_email_used(w)
    \/ verify_email_mark_used(w)
    \/ verify_email_update_user(w)
    \/ verify_email_recheck(w)

ForgotSteps(w) ==
    \/ save_password_reset_token(w)
    \/ save_password_reset_token_insert(w)
    \/ \E success \in BOOLEAN : send_password_reset_email(w, success)

ResetSteps(w) ==
    \/ reset_password_find_user(w)
    \/ reset_password_update_user(w)
    \/ reset_password_delete_token(w)
    \/ \E success \in BOOLEAN : send_password_change_notification(w, success)

GatedSteps(w) ==
    \/ get_profile(w)
    \/ get_users(w)
    \/ toggle_user_status(w)
    \/ toggle_user_status_update(w)

ProfileSteps(w) ==
    \/ \E data \in ProfileBodies : update_profile(w, data)
    \/ update_profile_update(w)
    \/ \E current_password \in CurrentPasswords, new_password \in NewPasswords :
          change_password(w, current_password, new_password)
    \/ change_password_update(w)

TransactionSteps(w) ==
    \/ \E data \in AddTransactionBodies : add_transaction(w, data)
    \/ add_transaction_insert(w)
    \/ get_transaction(w)
    \/ \E data \in UpdateTransactionBodies : update_transaction(w, data)
    \/ update_transaction_find_category(w)
    \/ update_transaction_update(w)
    \/ delete_transaction(w)
    \/ \E data \in BulkDeleteBodies : bulk_delete_transactions(w, data)
    \/ duplicate_transaction(w)
    \/ duplicate_transaction_insert(w)

CategorySteps(w) ==
    \/ \E data \in AddCategoryBodies : add_category(w, data)
    \/ add_category_insert(w)
    \/ delete_category(w)
    \/ delete_category_count(w)
    \/ delete_category_delete(w)

DeleteSteps(w) ==
    \/ delete_user(w)
    \/ delete_user_transactions(w)
    \/ delete_user_categories(w)
    \/ delete_user_delete(w)
    \/ \E password \in DeletePasswords : delete_account(w, password)
    \/ delete_account_transactions(w)
    \/ delete_account_categories(w)
    \/ delete_account_delete(w)

\* --------------------------------------------------- the specifications
\* Each specification runs the routes that read or write the records its
\* claims are about; the other routes leave those records alone.

\* The datastore after register("al", "al@x.io", "Passw0rd1") at time 0:
\* sent = TRUE when the verification email went out, FALSE when the send
\* failed and lines 87-90 deleted the user again.
AfterRegister(sent) ==
    /\ users = IF sent
               THEN {AdminDoc, UserDoc(2, "al", "al@x.io", generate_password_hash("Passw0rd1"), 1)}
               ELSE {AdminDoc}
    /\ nextUserId = 3
    /\ email_verifications = {VerificationRec(2, 1, 0)}
    /\ password_resets = {}
    /\ categories = IF sent THEN DefaultCategoryDocs(2, 1) ELSE {}
    /\ transactions = {}
    /\ nextTok = 2
    /\ nextOid = IF sent THEN 1 + Len(DefaultCategories) ELSE 1
    /\ now = 0
    /\ ticks = 0
    /\ issued = {}
    /\ pc = [w \in AllWorkers |-> "idle"]
    /\ req = [w \in AllWorkers |-> NoReq]
    /\ resp = [w \in AllWorkers |-> NoResp]
    /\ marked = [t \in 1..MaxTokens |-> 0]
    /\ applied = [t \in 1..MaxTokens |-> 0]

\* registration, requests served one at a time
NextRegister ==
    \/ \E w \in AllWorkers : Finish(w)
    \/ \E w \in AllWorkers, username \in RegisterUsernames, email \in RegisterEmails,
          password \in RegisterPasswords : register(w, username, email, password)
    \/ \E w \in AllWorkers : RegisterSteps(w)
    \/ \E w \in AllWorkers : SaveVerificationSteps(w)

SpecRegister == InitSeq /\ [][NextRegister]_vars

\* the email verification ledger: verify-email and resend-verification
\* served by two workers
InitVerify == (AfterRegister(TRUE) \/ AfterRegister(FALSE)) /\ workers = AllWorkers

NextVerify ==
    \/ \E w \in AllWorkers : Finish(w)
    \/ \E d \in ClockSteps : Tick(d)
    \/ \E w \in AllWorkers, token \in TokenInputs : verify_email(w, token)
    \/ \E w \in AllWorkers : VerifySteps(w)
    \/ \E w \in AllWorkers, email \in Emails : resend_verification(w, email)
    \/ \E w \in AllWorkers : resend_verification_update_user(w)
    \/ \E w \in AllWorkers : SaveVerificationSteps(w)

SpecVerify == InitVerify /\ [][NextVerify]_vars

\* the same routes, requests served one at a time
InitVerifySeq == (AfterRegister(TRUE) \/ AfterRegister(FALSE)) /\ workers = {1}

SpecVerifySeq == InitVerifySeq /\ [][NextVerify]_vars

\* the password reset ledger: forgot-password and reset-password served by
\* two workers
InitReset == (InitDb \/ AfterRegister(TRUE)) /\ workers = AllWorkers

NextReset ==
    \/ \E w \in AllWorkers : Finish(w)
    \/ \E d \in ClockSteps : Tick(d)
    \/ \E w \in AllWorkers, email \in ForgotEmails : forgot_password(w, email)
    \/ \E w \in AllWorkers : ForgotSteps(w)
    \/ \E w \in AllWorkers, token \in TokenInputs, password \in ResetPasswords :
          reset_password(w, token, password)
    \/ \E w \in AllWorkers : ResetSteps(w)

SpecReset == InitReset /\ [][NextReset]_vars

\* login and the access gate, with verify-email and toggle-status changing
\* the flags they read, served by two workers.  The one token of the seed
\* is marked by one request only, whose users.update_one always modifies
\* the record, so the recheck of lines 343-350 is never entered here.
InitAccess == AfterRegister(TRUE) /\ workers = AllWorkers

NextAccess ==
    \/ \E w \in AllWorkers : Finish(w)
    \/ \E d \in ClockSteps : Tick(d)
    \/ \E w \in AllWorkers, token \in 1..(nextTok - 1) : verify_email(w, token)
    \/ \E w \in AllWorkers : verify_email_used(w)
    \/ \E w \in AllWorkers : verify_email_mark_used(w)
    \/ \E w \in AllWorkers : verify_email_update_user(w)
    \/ \E w \in AllWorkers, username_or_email \in LoginNames, password \in LoginPasswords :
          login(w, username_or_email, password)
    \/ \E w \in AllWorkers, route \in AccessRoutes, header \in Headers :
          \E target \in RouteTargets(route) : token_required(w, route, header, target)
    \/ \E w \in AllWorkers : GatedSteps(w)

SpecAccess == InitAccess /\ [][NextAccess]_vars

\* The datastore after register("al", "al@x.io", "Passw0rd1") and
\* verify-email with its token, both at time 0, and the tokens that login
\* has issued since.
AfterVerifyWith(tokens) ==
    /\ users = {AdminDoc,
                VerifiedUser(UserDoc(2, "al", "al@x.io", generate_password_hash("Passw0rd1"), 1))}
    /\ nextUserId = 3
    /\ email_verifications = {[VerificationRec(2, 1, 0) EXCEPT !.used = TRUE]}
    /\ password_resets = {}
    /\ categories = DefaultCategoryDocs(2, 1)
    /\ transactions = {}
    /\ nextTok = 2
    /\ nextOid = 1 + Len(DefaultCategories)
    /\ now = 0
    /\ ticks = 0
    /\ issued = tokens
    /\ pc = [w \in AllWorkers |-> "idle"]
    /\ req = [w \in AllWorkers |-> NoReq]
    /\ resp = [w \in AllWorkers |-> NoResp]
    /\ marked = [t \in 1..MaxTokens |-> IF t = 1 THEN 1 ELSE 0]
    /\ applied = [t \in 1..MaxTokens |-> IF t = 1 THEN 1 ELSE 0]

AfterVerify == AfterVerifyWith({})

\* The same datastore after the admin and the user have logged in at time
\* 0, the clients holding the two tokens.
AfterLogin == AfterVerifyWith({generate_token(1, "admin", 0), generate_token(2, "user", 0)})

\* the access gate and the two account deletions, served by two workers
InitGate == AfterVerify /\ workers = AllWorkers

NextGate ==
    \/ \E w \in AllWorkers : Finish(w)
    \/ \E d \in ClockSteps : Tick(d)
    \/ \E w \in AllWorkers, username_or_email \in LoginNames, password \in LoginPasswords :
          login(w, username_or_email, password)
    \/ \E w \in AllWorkers, route \in GateRoutes, header \in HeadersAnyScheme :
          \E target \in RouteTargets(route) : token_required(w, route, header, target)
    \/ \E w \in AllWorkers : get_profile(w)
    \/ \E w \in AllWorkers : DeleteSteps(w)

SpecGate == InitGate /\ [][NextGate]_vars

\* the account of one registered user from its verification on: every
\* route that writes a user record other than register and the deletions,
\* requests served one at a time.  The tokens of the ledger are redeemed at
\* most once here and their owner is never deleted, so the recheck of lines
\* 343-350 is never entered.
InitAccount == AfterRegister(TRUE) /\ workers = {1}

NextAccount ==
    \/ \E w \in AllWorkers : Finish(w)
    \/ \E d \in ClockSteps : Tick(d)
    \/ \E w \in AllWorkers, token \in 1..(nextTok - 1) : verify_email(w, token)
    \/ \E w \in AllWorkers : verify_email_used(w)
    \/ \E w \in AllWorkers : verify_email_mark_used(w)
    \/ \E w \in AllWorkers : verify_email_update_user(w)
    \/ \E w \in AllWorkers : resend_verification(w, "al@x.io")
    \/ \E w \in AllWorkers : resend_verification_update_user(w)
    \/ \E w \in AllWorkers : SaveVerificationSteps(w)
    \/ \E w \in AllWorkers, username_or_email \in LoginNames, password \in LoginPasswords :
          login(w, username_or_email, password)
    \/ \E w \in AllWorkers : forgot_password(w, "al@x.io")
    \/ \E w \in AllWorkers : ForgotSteps(w)
    \/ \E w \in AllWorkers, token \in 1..(nextTok - 1), password \in ResetPasswords :
          reset_password(w, token, password)
    \/ \E w \in AllWorkers : ResetSteps(w)
    \/ \E w \in AllWorkers, route \in AccountRoutes, header \in Headers :
          \E target \in RouteTargets(route) : token_required(w, route, header, target)
    \/ \E w \in AllWorkers : get_profile(w)
    \/ \E w \in AllWorkers : toggle_user_status(w)
    \/ \E w \in AllWorkers : toggle_user_status_update(w)
    \/ \E w \in AllWorkers : ProfileSteps(w)

SpecAccount == InitAccount /\ [][NextAccount]_vars

\* the transactions and the categories of two logged-in users, the admin
\* and the seeded user, requests served one at a time.  A request that will
\* insert a document is accepted while an ObjectId is left for it.
InsertRoutes == {"add_transaction", "duplicate_transaction", "add_category"}

PendingObjects ==
    Cardinality({w \in workers :
        pc[w] \in InsertRoutes \cup {"add_transaction_insert", "duplicate_transaction_insert",
                                     "add_category_insert"}})

\* a request of a transaction or category route arrives at the gate
LedgerRequest(w, route, header, target) ==
    /\ route \in InsertRoutes => nextOid + PendingObjects <= MaxObjectId
    /\ token_required(w, route, header, target)

InitLedger == AfterLogin /\ workers = {1}

NextLedger ==
    \/ \E w \in AllWorkers : Finish(w)
    \/ \E w \in AllWorkers, route \in TransactionRoutes \cup CategoryRoutes, j \in issued :
          \E target \in LedgerTargets(route) : LedgerRequest(w, route, Bearer(j, TRUE), target)
    \/ \E w \in AllWorkers : TransactionSteps(w)
    \/ \E w \in AllWorkers : CategorySteps(w)

SpecLedger == InitLedger /\ [][NextLedger]_vars

\* sign-up: register, verify-email and login, requests served one at a time
SignupLoginNames == Usernames \cup Emails

NextSignup ==
    \/ \E w \in AllWorkers : Finish(w)
    \/ \E w \in AllWorkers, username \in Usernames, email \in Emails :
          register(w, username, email, "Passw0rd1")
    \/ \E w \in AllWorkers : RegisterSteps(w)
    \/ \E w \in AllWorkers : SaveVerificationSteps(w)
    \/ \E w \in AllWorkers, token \in 1..(nextTok - 1) : verify_email(w, token)
    \/ \E w \in AllWorkers : VerifySteps(w)
    \/ \E w \in AllWorkers, username_or_email \in SignupLoginNames :
          login(w, username_or_email, "Passw0rd1")

SpecSignup == InitSeq /\ [][NextSignup]_vars

\* the token codec, two workers
InitCodec == InitDb /\ workers = AllWorkers

NextCodec ==
    \/ \E w \in AllWorkers : Finish(w)
    \/ \E d \in ClockSteps : Tick(d)
    \/ \E w \in AllWorkers, subject_id \in 1..MaxUsers, role \in Roles : issue(w, subject_id, role)
    \/ \E w \in AllWorkers, signed \in BOOLEAN : verify(w, signed)

SpecCodec == InitCodec /\ [][NextCodec]_vars

\* the expiry of both ledgers: verify-email of the seed's token, and
\* forgot-password and reset-password of the admin, served by two workers
InitExpiry == AfterRegister(TRUE) /\ workers = AllWorkers

NextExpiry ==
    \/ \E w \in AllWorkers : Finish(w)
    \/ \E d \in ClockSteps : Tick(d)
    \/ \E w \in AllWorkers, token \in 1..(nextTok - 1) : verify_email(w, token)
    \/ \E w \in AllWorkers : verify_email_used(w)
    \/ \E w \in AllWorkers : verify_email_mark_used(w)
    \/ \E w \in AllWorkers : verify_email_update_user(w)
    \/ \E w \in AllWorkers : forgot_password(w, AdminEmail)
    \/ \E w \in AllWorkers : ForgotSteps(w)
    \/ \E w \in AllWorkers, token \in 1..(nextTok - 1), password \in ResetPasswords :
          reset_password(w, token, password)
    \/ \E w \in AllWorkers : ResetSteps(w)

SpecExpiry == InitExpiry /\ [][NextExpiry]_vars

\* ======================================================================
\* The claims
\* ======================================================================
Requests(op) == {w \in workers : req[w].op = op}
Answered(op) == {w \in Requests(op) : pc[w] = "done"}
GatedRequests == {w \in workers : req[w].op \in AdminRoutes \cup UserRoutes}

\* C1: login hands out an access token only when the user record it read
\* has email_verified = true; no token is ever signed for a user who is not
\* verified.
C1_LoginOnlyVerified ==
    /\ \A w \in Answered("login") :
          resp[w].token # NoPayload =>
              /\ req[w].user # NoUser
              /\ req[w].user.email_verified
              /\ resp[w].token.sub = str(req[w].user._id)
    /\ \A w \in Answered("login") :
          (req[w].user # NoUser /\ ~req[w].user.email_verified) =>
              resp[w].token = NoPayload /\ resp[w].code # 200
    /\ \A j \in issued : \A u \in users : str(u._id) = j.sub => u.email_verified

\* user 2 starts unverified; it was verified and then logged in
C1_Witness ==
    \E w \in Answered("login") :
        resp[w].code = 200 /\ resp[w].token.sub = str(2) /\ resp[w].token \in issued

\* C2: of the verify-email requests that race for one unused token at most
\* one wins the conditional update, and only the winner updates the user;
\* a request whose conditional update changed nothing answers AlreadyUsed
\* and does not write the user record.
C2_OneRedemption ==
    /\ \A t \in 1..MaxTokens : marked[t] <= 1 /\ applied[t] <= marked[t]
    /\ \A w \in Requests("verify_email") :
          req[w].mark = "lost" =>
              /\ pc[w] = "done"
              /\ resp[w] = Response(400, AlreadyUsedMessage)
              /\ ~req[w].wrote_user
    /\ \A w \in Requests("verify_email") : req[w].wrote_user => req[w].mark = "won"
    /\ \A w, v \in Requests("verify_email") :
          (w # v /\ req[w].mark = "won" /\ req[v].mark = "won") =>
              req[w].trec.token # req[v].trec.token

\* both requests read the token unused; one won, the other lost
C2_Witness ==
    \E w, v \in Requests("verify_email") :
        /\ req[w].trec = req[v].trec
        /\ ~req[w].trec.used
        /\ req[w].mark = "won" /\ req[w].wrote_user
        /\ req[v].mark = "lost" /\ pc[v] = "done"

\* C3: a reset token replaces the password hash at most once, also when
\* reset-password requests with that token race.
C3_OneReset ==
    \A t \in 1..MaxTokens : applied[t] <= 1

\* C4: the ledgers hold at most one unused token of each kind per user.
UnusedTokens(ledger, user_id) == {e \in ledger : e.user_id = str(user_id) /\ ~e.used}

C4_SingleActiveToken ==
    \A user_id \in 1..MaxUsers :
        /\ Cardinality(UnusedTokens(email_verifications, user_id)) <= 1
        /\ Cardinality(UnusedTokens(password_resets, user_id)) <= 1

\* C5: a request to a token_required route whose subject is inactive when
\* the gate reads it is answered 401 and the handler is not called, although
\* its token is signed and unexpired.
C5_InactiveRejected ==
    \A w \in GatedRequests :
        (req[w].gate_user # NoUser /\ ~req[w].gate_user.is_active) =>
            /\ pc[w] = "done"
            /\ resp[w].code = 401
            /\ ~req[w].invoked

\* a deactivated user presented a valid token and got 401
C5_Witness ==
    \E w \in GatedRequests :
        /\ pc[w] = "done"
        /\ req[w].payload \in issued
        /\ req[w].gate_user # NoUser /\ ~req[w].gate_user.is_active
        /\ UserById(ObjectId(req[w].payload.sub)) # NoUser
        /\ ~UserById(ObjectId(req[w].payload.sub)).is_active
        /\ resp[w] = Response(401, "Account is deactivated")

\* C6: the handler of an admin route runs only for a request that passed
\* token_required (signed token, subject found and active) and whose payload
\* has role admin; every other request is answered 401 or 403 and reaches no
\* handler step.
AdminHandlerSteps ==
    {"get_users", "toggle_user_status", "toggle_user_status_update",
     "delete_user", "delete_user_transactions", "delete_user_categories", "delete_user_delete"}

C6_AdminOnly ==
    \A w \in workers :
        /\ pc[w] \in AdminHandlerSteps => req[w].op \in AdminRoutes /\ req[w].invoked
        /\ req[w].op \in AdminRoutes =>
              /\ req[w].invoked =>
                    /\ req[w].payload \in issued
                    /\ req[w].payload.role = "admin"
                    /\ req[w].gate_user # NoUser
                    /\ str(req[w].gate_user._id) = req[w].payload.sub
                    /\ req[w].gate_user.is_active
              /\ ~req[w].invoked =>
                    /\ pc[w] = "done"
                    /\ resp[w].code \in {401, 403}
                    /\ req[w].user = NoUser

\* a verified, active user without the admin role was turned away with 403
C6_Witness ==
    \E w \in workers :
        /\ req[w].op \in AdminRoutes
        /\ pc[w] = "done"
        /\ req[w].payload \in issued
        /\ req[w].payload.role = "user"
        /\ resp[w] = Response(403, "Admin privilege required")

\* C7: forgot-password answers an existing, verified email whose reset mail
\* was sent exactly as it answers an email that no user has.
C7_SameAnswer ==
    \A w \in Answered("forgot_password") :
        (req[w].user # NoUser /\ req[w].user.email_verified /\ req[w].sent) =>
            resp[w] = Response(200, ForgotUnknownMessage)

\* C8: when register answers that the verification email failed, the record
\* it inserted is gone, no user record has that username or that email, and
\* the lookups of lines 44 and 48 let the same username and email through.
C8_RollbackOnSendFailure ==
    \A w \in Answered("register") :
        resp[w].code = 500 =>
            /\ ~req[w].sent
            /\ req[w].uid # 0
            /\ UserById(req[w].uid) = NoUser
            /\ FirstUser({u \in users : u.username = req[w].username}) = NoUser
            /\ FirstUser({u \in users : u.email = req[w].email}) = NoUser

C8_Witness ==
    \E w \in Answered("register") :
        /\ resp[w] = Response(500, "Failed to send verification email. Please try again.")
        /\ req[w].uid = 2
        /\ nextUserId = 3

\* C9 as stated: a verify-email for a token that was redeemed before answers
\* AlreadyUsed.
C9_SecondIsAlreadyUsed ==
    \A w \in Answered("verify_email") :
        (VerifyTokenUsed(req[w].trec) /\ applied[req[w].trec.token] = 1) =>
            resp[w] = Response(400, AlreadyUsedMessage)

\* C9 amended: requests served one after the other; the first verify-email
\* of a token answers success and leaves its owner verified and the token
\* used; a later verify-email of that token answers the idempotent success
\* (200, already verified) and runs no update.
C9_SecondIsIdempotent ==
    /\ \A w \in Answered("verify_email") :
          resp[w] = Response(200, VerifiedMessage) =>
              /\ req[w].mark = "won"
              /\ UserById(req[w].uid) # NoUser
              /\ UserById(req[w].uid).email_verified
              /\ \E e \in email_verifications : e.token = req[w].token /\ e.used
    /\ \A w \in Requests("verify_email") :
          (VerifyTokenUsed(req[w].trec) /\ applied[req[w].trec.token] = 1) =>
              /\ req[w].mark = NoValue
              /\ ~req[w].wrote_user
              /\ pc[w] = "done" => resp[w] = Response(200, AlreadyVerifiedMessage)

\* the second redemption was answered
C9_Witness ==
    \E w \in Answered("verify_email") :
        /\ VerifyTokenUsed(req[w].trec)
        /\ applied[req[w].trec.token] = 1
        /\ marked[req[w].trec.token] = 1
        /\ resp[w].code = 200

\* C10: verify-email with a token that is already used answers 200 when the
\* owner it reads is verified and 400 AlreadyUsed when the owner is not
\* verified or is missing; it runs neither update.
C10_UsedToken ==
    \A w \in Requests("verify_email") :
        req[w].trec.used =>
            /\ req[w].mark = NoValue
            /\ ~req[w].wrote_user
            /\ pc[w] \in {"verify_email_used", "done"}
            /\ pc[w] = "done" =>
                  IF req[w].user # NoUser /\ req[w].user.email_verified
                  THEN resp[w] = Response(200, AlreadyVerifiedMessage)
                  ELSE resp[w] = Response(400, AlreadyUsedMessage)

\* the token was used but its owner, who exists, was not verified yet
C10_Witness ==
    \E w \in Answered("verify_email") :
        /\ req[w].trec.used
        /\ req[w].user # NoUser
        /\ ~req[w].user.email_verified
        /\ resp[w] = Response(400, AlreadyUsedMessage)

\* C11 as stated: once resend-verification has stored a later token for a
\* user and has been answered, verify-email with an earlier token of that
\* user answers "Invalid verification token", marks nothing and does not
\* verify the user.
C11_FirstTokenInvalid ==
    \A w \in Requests("verify_email") :
        req[w].newer # NoToken =>
            /\ pc[w] = "done"
            /\ resp[w] = Response(400, "Invalid verification token")
            /\ req[w].mark = NoValue
            /\ ~req[w].wrote_user

\* C12 as stated: a verify-email whose token record has expires_at at or
\* before the time of the request answers the Expired error.
C12_ExpiredAnswersExpired ==
    \A w \in Answered("verify_email") :
        (req[w].trec # NoRec /\ req[w].trec.expires_at <= req[w].t) =>
            resp[w] = Response(400, "Verification link has expired. Please request a new one.")

\* C12 amended: verify-email with a token record that is unused and whose
\* expires_at is at or before the time of the request answers the Expired
\* error; with a used record it answers as for any used token; in both
\* cases it runs neither update.  reset-password with a token whose record
\* has expires_at at or before the time of the request answers "Invalid or
\* expired token", replaces no hash and deletes no record.
C12_ExpiredRejected ==
    /\ \A w \in Requests("verify_email") :
          (req[w].trec # NoRec /\ req[w].trec.expires_at <= req[w].t) =>
              /\ req[w].mark = NoValue
              /\ ~req[w].wrote_user
              /\ pc[w] \in {"verify_email_used", "done"}
              /\ (pc[w] = "done" /\ ~req[w].trec.used) =>
                    resp[w] = Response(400, "Verification link has expired. Please request a new one.")
              /\ (pc[w] = "done" /\ req[w].trec.used) =>
                    resp[w] \in {Response(200, AlreadyVerifiedMessage),
                                 Response(400, AlreadyUsedMessage)}
    /\ \A w \in Requests("reset_password") :
          /\ req[w].trec # NoRec => req[w].trec.expires_at > req[w].t
          /\ (\E e \in password_resets : e.token = req[w].token /\ e.expires_at <= req[w].t) =>
                /\ pc[w] = "done"
                /\ req[w].trec = NoRec
                /\ ~req[w].wrote_user
                /\ is_strong_password(req[w].password) =>
                      resp[w] = Response(400, "Invalid or expired token")

\* an unused token was refused at its expiry instant and is still unused,
\* its owner still unverified
C12_Witness ==
    /\ \E w \in Answered("verify_email") :
          /\ req[w].trec # NoRec
          /\ ~req[w].trec.used
          /\ req[w].trec.expires_at = req[w].t
          /\ resp[w].code = 400
          /\ req[w].trec \in email_verifications
          /\ ~UserById(ObjectId(req[w].trec.user_id)).email_verified
    /\ \E w \in Answered("reset_password") :
          /\ is_strong_password(req[w].password)
          /\ resp[w].code = 400
          /\ \E e \in password_resets : e.token = req[w].token /\ e.expires_at <= req[w].t
          /\ UserById(1).password = generate_password_hash(AdminPassword)

\* C13: once a reset-password has answered success the record of its token
\* is absent from the ledger; a reset-password that looks the token up after
\* that answers "Invalid or expired token" and replaces no hash.
C13_SingleUseByDeletion ==
    /\ \A w \in Answered("reset_password") :
          resp[w] = Response(200, "Password reset successful") =>
              ~\E e \in password_resets : e.token = req[w].token
    /\ \A w \in Requests("reset_password") :
          req[w].redeemed =>
              /\ pc[w] = "done"
              /\ req[w].trec = NoRec
              /\ ~req[w].wrote_user
              /\ is_strong_password(req[w].password) =>
                    resp[w] = Response(400, "Invalid or expired token")

\* the token was redeemed once; the second reset-password with it, before
\* its expiry, was refused and the hash is the one the first reset wrote
C13_Witness ==
    \E w \in Answered("reset_password") :
        /\ req[w].redeemed
        /\ is_strong_password(req[w].password)
        /\ applied[req[w].token] = 1
        /\ req[w].t = 0
        /\ resp[w] = Response(400, "Invalid or expired token")

\* C14 as stated: a registration answered 201 leaves its user unverified; a
\* login that names a registered user by the username or by the email it
\* registered with, with its password, answers 403 with
\* email_verification_required while the user is unverified, and 200 with a
\* token for that user once verify-email has verified it.
C14_VerifyThenLogin ==
    /\ \A w \in Answered("register") :
          resp[w].code = 201 =>
              /\ UserById(req[w].uid) # NoUser
              /\ ~UserById(req[w].uid).email_verified
    /\ \A w \in Answered("login") : \A u \in users :
          (/\ req[w].username \in {u.username, u.email}
           /\ check_password_hash(u.password, req[w].password)) =>
              IF u.email_verified
              THEN /\ resp[w].code = 200
                   /\ resp[w].token = generate_token(u._id, u.role, now)
              ELSE /\ resp[w].code = 403
                   /\ resp[w].email_verification_required

C16_MissingToken ==
    \A w \in GatedRequests :
        (req[w].header.scheme # "Bearer" \/ req[w].header.jwt = NoPayload) =>
            /\ pc[w] = "done"
            /\ resp[w] = Response(401, "Token is missing")
            /\ ~req[w].invoked

\* C17: a request to a token_required route whose token is signed and
\* unexpired but whose subject is not in the users collection when the gate
\* looks it up is answered 401 "User not found" and its handler is not
\* called.  Ids are never handed out twice, so the subject of an issued
\* token is missing only after its record was deleted.
C17_DeletedRejected ==
    /\ \A w \in GatedRequests :
          (req[w].payload \in issued /\ req[w].gate_user = NoUser) =>
              /\ pc[w] = "done"
              /\ resp[w] = Response(401, "User not found")
              /\ ~req[w].invoked
    /\ \A w \in GatedRequests :
          req[w].invoked => req[w].gate_user # NoUser
    /\ \A j \in issued : ObjectId(j.sub) \in 1..(nextUserId - 1)

\* the deleted user presented its own token, still unexpired, and got 401
C17_Witness ==
    \E w \in GatedRequests :
        /\ pc[w] = "done"
        /\ req[w].header.scheme = "Bearer"
        /\ req[w].payload \in issued
        /\ req[w].payload.sub = str(2)
        /\ req[w].payload.exp > now
        /\ UserById(2) = NoUser
        /\ req[w].gate_user = NoUser
        /\ resp[w] = Response(401, "User not found")

\* C18: resend-verification draws a token only in a request that read its
\* user unverified; a request that read the user verified is answered 400
\* at once: it draws no token, builds no ledger record and reaches none of
\* the steps that write the user record or the ledger.
C18_ResendOnlyUnverified ==
    \A w \in Requests("resend_verification") :
        /\ (req[w].user # NoUser /\ req[w].user.email_verified) =>
              /\ pc[w] = "done"
              /\ resp[w] = Response(400, AlreadyVerifiedMessage)
              /\ req[w].token = NoToken
              /\ req[w].trec = NoRec
        /\ req[w].token # NoToken =>
              /\ req[w].user # NoUser
              /\ ~req[w].user.email_verified
        /\ pc[w] # "done" => req[w].token # NoToken

\* a verified user asked for a new verification email; the ledger still
\* holds its used token only
C18_Witness ==
    \E w \in Answered("resend_verification") :
        /\ req[w].user # NoUser
        /\ req[w].user.email_verified
        /\ resp[w].code = 400
        /\ email_verifications = {[VerificationRec(2, 1, 0) EXCEPT !.used = TRUE]}

\* C19: forgot-password draws and stores a reset token only in a request
\* that read a user who is verified; a request that found no user, or read
\* an unverified one, is answered at once without reaching a step that
\* writes the ledger, the unverified one with the verify-first error; every
\* stored reset record belongs to a verified user.
C19_ResetTokenOnlyVerified ==
    /\ \A w \in Requests("forgot_password") :
          /\ req[w].token # NoToken =>
                /\ req[w].user # NoUser
                /\ req[w].user.email_verified
          /\ (req[w].user # NoUser /\ ~req[w].user.email_verified) =>
                /\ pc[w] = "done"
                /\ resp[w] = Response(400, ForgotVerifyFirstMessage)
                /\ req[w].token = NoToken
                /\ req[w].trec = NoRec
          /\ req[w].user = NoUser =>
                /\ pc[w] = "done"
                /\ req[w].token = NoToken
                /\ req[w].trec = NoRec
    /\ \A e \in password_resets : OwnerVerified(UserById(ObjectId(e.user_id)))

\* the unverified user of the seed asked for a reset while the admin's
\* reset token is stored
C19_Witness ==
    /\ \E w \in Answered("forgot_password") :
          /\ req[w].user # NoUser
          /\ ~req[w].user.email_verified
          /\ resp[w] = Response(400, ForgotVerifyFirstMessage)
    /\ \E e \in password_resets : e.user_id = str(1)
    /\ \A e \in password_resets : e.user_id = str(1)

\* C20: a reset-password that found a valid token answers success, has
\* replaced the hash by that of a new password and has deleted the record,
\* whether the notification was sent or failed.
C20_NotificationBestEffort ==
    \A w \in Answered("reset_password") :
        req[w].trec # NoRec =>
            /\ resp[w] = Response(200, "Password reset successful")
            /\ req[w].wrote_user
            /\ applied[req[w].token] >= 1
            /\ ~\E e \in password_resets : e.token = req[w].token
            /\ \E p \in ResetPasswords :
                  /\ is_strong_password(p)
                  /\ UserById(req[w].uid).password = generate_password_hash(p)

\* the notification failed and the reset stands
C20_Witness ==
    \E w \in Answered("reset_password") :
        /\ req[w].trec # NoRec
        /\ req[w].user # NoUser
        /\ ~req[w].sent
        /\ resp[w].code = 200
        /\ UserById(1).password = generate_password_hash("Passw0rd2")
        /\ password_resets = {}

\* C21: no two user records have the same username, and no two user records
\* have emails that are equal when letter case is ignored.
C21_UniqueUsers ==
    \A u \in users, v \in users :
        u._id # v._id =>
            /\ u.username # v.username
            /\ Lower(u.email) # Lower(v.email)

\* C22: once delete-account or the admin's delete-user has answered success,
\* no category and no transaction of the deleted user is left, the default
\* categories of the registration included.
C22_CascadingDelete ==
    \A w \in Answered("delete_account") \cup Answered("delete_user") :
        resp[w].code = 200 =>
            LET user_id == IF req[w].op = "delete_user" THEN str(req[w].target)
                           ELSE req[w].payload.sub
            IN  /\ ~\E c \in categories : c.user_id = user_id
                /\ ~\E t \in transactions : t.user_id = user_id

\* C23: a verify-email that found an unused, unexpired token whose owner
\* exists answers success, has marked that record used, has set the owner's
\* email_verified and has removed the owner's email_verification_token; no
\* other record changed: a ledger record is used only when its own token was
\* redeemed, and a user is verified, and without the token field, only when
\* a token issued to that user was redeemed.
UserRedeemed(u) ==
    \E e \in email_verifications : e.user_id = str(u._id) /\ applied[e.token] >= 1

C23_VerifyEffect ==
    /\ \A w \in Answered("verify_email") :
          LET token_exists == req[w].trec
              owner == UserById(ObjectId(token_exists.user_id))
          IN  (/\ token_exists # NoRec
               /\ ~VerifyTokenUsed(token_exists)
               /\ token_exists.expires_at > req[w].t
               /\ owner # NoUser) =>
                  /\ resp[w] = Response(200, VerifiedMessage)
                  /\ [token_exists EXCEPT !.used = TRUE] \in email_verifications
                  /\ owner.email_verified
                  /\ owner.email_verification_token = NoToken
    /\ \A e \in email_verifications : e.used <=> marked[e.token] = 1
    /\ \A t \in 1..MaxTokens : marked[t] <= 1
    /\ \A u \in users :
          u.role = "user" =>
              IF UserRedeemed(u)
              THEN u.email_verified /\ u.email_verification_token = NoToken
              ELSE ~u.email_verified /\ u.email_verification_token # NoToken

\* a token was redeemed while another user waits with an unused token
C23_Witness ==
    \E w \in Answered("verify_email") :
        /\ req[w].trec # NoRec
        /\ ~VerifyTokenUsed(req[w].trec)
        /\ resp[w] = Response(200, VerifiedMessage)
        /\ UserById(ObjectId(req[w].trec.user_id)).email_verified
        /\ \E v \in users, e \in email_verifications :
              /\ v.role = "user"
              /\ str(v._id) # req[w].trec.user_id
              /\ ~v.email_verified
              /\ e.user_id = str(v._id)
              /\ ~e.used

\* C24: in every step, a ledger record that is new is unused; a record that
\* was used stays as it is for as long as it is stored; a record changes
\* only by its used flag going from false to true, in the conditional update
\* of a verify-email for that token; and a record is removed only by the
\* delete_many of a token issuance for the same user.
C24_UsedOnlyForward ==
    [][/\ \A x \in email_verifications' :
             (\A e \in email_verifications : e.token # x.token) => ~x.used
       /\ \A e \in email_verifications :
             LET after == {x \in email_verifications' : x.token = e.token}
             IN  /\ \A x \in after :
                        /\ e.used => x = e
                        /\ x # e =>
                              /\ x = [e EXCEPT !.used = TRUE]
                              /\ \E w \in workers :
                                    /\ pc[w] = "verify_email_mark_used"
                                    /\ pc'[w] # pc[w]
                                    /\ req[w].op = "verify_email"
                                    /\ req[w].trec.token = e.token
                 /\ after = {} =>
                        \E w \in workers :
                            /\ pc[w] = "save_verification_token"
                            /\ pc'[w] # pc[w]
                            /\ str(req[w].uid) = e.user_id
      ]_vars

\* a used record is stored, and a later verify-email has read it and has
\* been answered
C24_Witness ==
    \E e \in email_verifications, w \in Answered("verify_email") :
        /\ e.used
        /\ marked[e.token] = 1
        /\ req[w].trec = e

\* C25: the gate turns a token that generate_token signed away only when
\* the token has expired, when its subject is missing or inactive, or when
\* the route asks for the admin role that the token does not carry; a
\* password changed by change-password or reset-password since the token was
\* issued is no reason.
C25_NoRevocation ==
    \A w \in GatedRequests :
        (/\ pc[w] = "done"
         /\ ~req[w].invoked
         /\ req[w].header.scheme = "Bearer"
         /\ req[w].header.signed
         /\ req[w].header.jwt \in issued) =>
            \/ /\ resp[w] = Response(401, "Token expired. Please log in again.")
               /\ req[w].header.jwt.exp <= now
            \/ /\ resp[w] = Response(401, "User not found")
               /\ req[w].gate_user = NoUser
            \/ /\ resp[w] = Response(401, "Account is deactivated")
               /\ ~req[w].gate_user.is_active
            \/ /\ resp[w] = Response(403, "Admin privilege required")
               /\ req[w].op \in AdminRoutes
               /\ req[w].header.jwt.role # "admin"

\* a token that login issued for the first password passes the gate after
\* reset-password and then change-password have replaced that password
C25_Witness ==
    \E w \in GatedRequests :
        /\ req[w].invoked
        /\ req[w].payload \in issued
        /\ req[w].payload.sub = str(2)
        /\ req[w].gate_user.password = generate_password_hash("Passw0rd3")
        /\ \E t \in 1..MaxTokens :
              /\ applied[t] >= 1
              /\ ~\E e \in email_verifications : e.token = t

\* C26: in every step, a user record that is verified stays verified, and a
\* user record becomes verified only in the users.update_one of a
\* verify-email that won the conditional update of a token of that user.
C26_VerifiedOnlyByRedemption ==
    [][\A u \in users : \A v \in users' :
           v._id = u._id =>
               /\ u.email_verified => v.email_verified
               /\ (~u.email_verified /\ v.email_verified) =>
                     \E w \in workers :
                         /\ pc[w] = "verify_email_update_user"
                         /\ pc'[w] # pc[w]
                         /\ req[w].op = "verify_email"
                         /\ req[w].mark = "won"
                         /\ ObjectId(req[w].trec.user_id) = u._id
      ]_vars

\* update-profile has changed the address of a verified user, who is still
\* verified
C26_Witness ==
    \E w \in Answered("update_profile") :
        /\ resp[w] = Response(200, "Profile updated successfully")
        /\ req[w].payload.sub = str(2)
        /\ req[w].email = "AL@x.io"
        /\ UserById(2).email = "AL@x.io"
        /\ UserById(2).email_verified

\* C27: every record of the email verification ledger and of the password
\* reset ledger names a user that is stored.
C27_LedgersReferToUsers ==
    \A e \in email_verifications \cup password_resets :
        UserById(ObjectId(e.user_id)) # NoUser

OwnerCheckedRoutes ==
    {"get_transaction", "update_transaction", "delete_transaction",
     "bulk_delete_transactions", "duplicate_transaction"}

C29_OwnTransactionsOnly ==
    [][\A w \in workers :
           (pc'[w] # pc[w] /\ req'[w].op \in OwnerCheckedRoutes) =>
               LET sub == req'[w].payload.sub
                   foreign == {t \in transactions : t._id = req'[w].target /\ t.user_id # sub}
               IN  /\ \A t \in transactions : t.user_id # sub => t \in transactions'
                   /\ \A t \in transactions' \ transactions : t.user_id = sub
                   /\ req'[w].transaction # NoTransaction => req'[w].transaction.user_id = sub
                   /\ (foreign # {} /\ pc[w] = req'[w].op) =>
                          /\ pc'[w] = "done"
                          /\ \/ resp'[w].code = 404
                             \/ /\ req'[w].op = "update_transaction"
                                /\ req'[w].data = NoBody
                                /\ resp'[w].code = 400
                   /\ (req'[w].op = "bulk_delete_transactions" /\ resp'[w].code = 200) =>
                          req'[w].deleted_count =
                              Cardinality({t \in transactions :
                                              /\ t._id \in req'[w].data.transaction_ids
                                              /\ t.user_id = sub})
      ]_vars

\* a delete and a bulk delete that named a stored transaction of another
\* user were answered 404 and 200 with a count of 0
C29_Witness ==
    \E w \in workers, t \in transactions :
        /\ pc[w] = "done"
        /\ t.user_id # req[w].payload.sub
        /\ \/ /\ req[w].op = "delete_transaction"
              /\ req[w].target = t._id
              /\ resp[w].code = 404
           \/ /\ req[w].op = "bulk_delete_transactions"
              /\ t._id \in req[w].data.transaction_ids
              /\ resp[w].code = 200
              /\ req[w].deleted_count = 0

\* C30: the category_id of every stored transaction is the id of a stored
\* category of the user of the transaction.
C30_CategoryOfSameUser ==
    \A t \in transactions :
        \E c \in categories : str(c._id) = t.category_id /\ c.user_id = t.user_id
====
